---- MODULE Spec2Model ----
(***************************************************************************)
(* A model of the CodeAnylizer pipeline: Tokenizer.tokenize, Parser.parse, *)
(* SemanticAnalyzer.analyze and CodeGenerator.generate, run in the order   *)
(* of src/main.py.  Text is a sequence of one-character strings; a token   *)
(* value and a node value are such sequences too.  Python's None for a     *)
(* node value is the empty sequence (no token has an empty text).          *)
(***************************************************************************)
EXTENDS Integers, Sequences, FiniteSets, TLC

VARIABLES code, stage, tokens, current_token_index, ast, raised,
          symbol_table, initialized_vars, var_Visited, sem_stack, sem_node,
          generated_code, gen_stack,
          parser,          \* the call stack of parse, where parse runs rule by rule
          generate_calls,  \* the calls of generate on the CodeGenerator
          other            \* the objects of a second run, while this one runs

vars == <<code, stage, tokens, current_token_index, ast, raised,
          symbol_table, initialized_vars, var_Visited, sem_stack, sem_node,
          generated_code, gen_stack, parser, generate_calls, other>>

----------------------------------------------------------------------------
(* Characters *)

NL == "\n"

Letters == {"V", "a", "r", "B", "e", "g", "i", "n", "E", "d", "x", "y", "z", "_", "b"}

Digits == {"0", "1", "2", "3", "5"}

\* \w of Python's re for the characters of the model
WordChars == Letters \cup Digits

None == <<>>

NoToken == [t_type |-> "None", value |-> None, line |-> 0]

NoNode == [node_type |-> "None", line |-> 0, value |-> None, children |-> <<>>]

NoError == [exc |-> "None", stage |-> "None", kind |-> "None", expected |-> "None",
            expected_value |-> None, got |-> "None", got_value |-> None, line |-> 0]

----------------------------------------------------------------------------
(* lexer/models.py *)

\* a token that carries no line of its own
Token_first_line(t_type, value, line) == [t_type |-> t_type, value |-> value, line |-> 1]

Token(t_type, value, line) == [t_type |-> t_type, value |-> value, line |-> line]

\* \b at position i (1-based index of the next character) of text s
WordBoundary(s, i) ==
    LET before == i > 1 /\ s[i - 1] \in WordChars
        after == i <= Len(s) /\ s[i] \in WordChars
    IN before # after

\* the literal w stands in s at position i
LiteralAt(s, i, w) ==
    /\ i + Len(w) - 1 <= Len(s)
    /\ \A k \in 1..Len(w) : s[i + k - 1] = w[k]

RECURSIVE RunEnd(_, _, _)
\* the position after the longest run of characters of set cs that starts at i
RunEnd(s, i, cs) ==
    IF i <= Len(s) /\ s[i] \in cs THEN RunEnd(s, i + 1, cs) ELSE i

Keywords == << <<"V", "a", "r">>, <<"B", "e", "g", "i", "n">>, <<"E", "n", "d">> >>

\* KEYWORD = \b(Var|Begin|End)\b : the end of the match at i, or 0
MatchKEYWORD(s, i) ==
    LET hits == {k \in 1..Len(Keywords) :
                    /\ WordBoundary(s, i)
                    /\ LiteralAt(s, i, Keywords[k])
                    /\ WordBoundary(s, i + Len(Keywords[k]))}
    IN IF hits = {} THEN 0
       ELSE LET k == CHOOSE k \in hits : \A j \in hits : k <= j
            IN i + Len(Keywords[k])

\* IDENTIFIER = \b[a-zA-Z_][a-zA-Z0-9_]*\b
MatchIDENTIFIER(s, i) ==
    IF i <= Len(s) /\ s[i] \in Letters /\ WordBoundary(s, i)
    THEN RunEnd(s, i + 1, WordChars)
    ELSE 0

\* CONSTANT = \b\d+\b : the greedy run of digits, backtracking never reaches a \b
MatchCONSTANT(s, i) ==
    IF i <= Len(s) /\ s[i] \in Digits /\ WordBoundary(s, i)
    THEN LET e == RunEnd(s, i + 1, Digits)
         IN IF WordBoundary(s, e) THEN e ELSE 0
    ELSE 0

\* SKIP as \s+: line breaks too
MatchSKIP_any_space(s, i) ==
    IF i <= Len(s) /\ s[i] \in {" ", "\t", NL} THEN RunEnd(s, i + 1, {" ", "\t", NL}) ELSE 0

\* SKIP = [ \t]+
MatchSKIP(s, i) ==
    IF i <= Len(s) /\ s[i] \in {" ", "\t"} THEN RunEnd(s, i + 1, {" ", "\t"}) ELSE 0

\* one character classes, in the order of the enumeration
SingleKind(c) ==
    CASE c = "=" -> "EQUAL"
      [] c = "-" -> "UNARY_OPERATOR"
      [] c \in {"+", "*", "/"} -> "BINARY_OPERATOR"
      [] c = ";" -> "SEMICOLON"
      [] c = "," -> "COMMA"
      [] c = "(" -> "LPAREN"
      [] c = ")" -> "RPAREN"
      [] OTHER -> "None"

\* TokenType.build_regex: the first alternative, in declaration order, that
\* matches at position i; the result is <<kind (mo.lastgroup), end of the match>>
build_regex(s, i) ==
    IF MatchKEYWORD(s, i) # 0 THEN <<"KEYWORD", MatchKEYWORD(s, i)>>
    ELSE IF MatchIDENTIFIER(s, i) # 0 THEN <<"IDENTIFIER", MatchIDENTIFIER(s, i)>>
    ELSE IF SingleKind(s[i]) \in {"EQUAL", "UNARY_OPERATOR", "BINARY_OPERATOR",
                                  "SEMICOLON", "COMMA", "LPAREN", "RPAREN"}
         THEN <<SingleKind(s[i]), i + 1>>
    ELSE IF MatchCONSTANT(s, i) # 0 THEN <<"CONSTANT", MatchCONSTANT(s, i)>>
    ELSE IF MatchSKIP(s, i) # 0 THEN <<"SKIP", MatchSKIP(s, i)>>
    ELSE IF s[i] = NL THEN <<"NEWLINE", i + 1>>
    ELSE <<"MISMATCH", i + 1>>

----------------------------------------------------------------------------
(* lexer/tokenizer.py *)

\* the kinds after which a '-' is unary, without the keywords
UnaryContext_no_keyword == {"SEMICOLON", "COMMA", "LPAREN", "BINARY_OPERATOR",
                            "NEWLINE", "EQUAL"}

\* the kinds after which a '-' is a unary operator
UnaryContext == {"SEMICOLON", "COMMA", "LPAREN", "BINARY_OPERATOR",
                 "KEYWORD", "NEWLINE", "EQUAL"}

\* a lexical error that always reports line 1
LexicalError_first_line(value, line) ==
    [NoError EXCEPT !.exc = "RuntimeError", !.stage = "scan", !.kind = "Lexical",
                    !.got_value = value, !.line = 1]

LexicalError(value, line) ==
    [NoError EXCEPT !.exc = "RuntimeError", !.stage = "scan", !.kind = "Lexical",
                    !.got_value = value, !.line = line]

RECURSIVE tokenize_loop(_, _, _, _)
\* the body of "for mo in re.finditer(...)": toks and current_line so far
tokenize_loop(s, i, toks, current_line) ==
    IF i > Len(s) THEN [err |-> NoError, tokens |-> toks]
    ELSE LET mo == build_regex(s, i)
             kind == mo[1]
             value == SubSeq(s, i, mo[2] - 1)
         IN CASE kind = "MISMATCH" ->
                    [err |-> LexicalError(value, current_line), tokens |-> <<>>]
              [] kind = "SKIP" -> tokenize_loop(s, mo[2], toks, current_line)
              [] kind = "NEWLINE" ->
                    tokenize_loop(s, mo[2],
                                  Append(toks, Token(kind, value, current_line)),
                                  current_line + 1)
              [] kind = "UNARY_OPERATOR" ->
                    IF Len(toks) = 0 \/ toks[Len(toks)].t_type \in UnaryContext
                    THEN tokenize_loop(s, mo[2],
                             Append(toks, Token("UNARY_OPERATOR", value, current_line)),
                             current_line)
                    ELSE tokenize_loop(s, mo[2],
                             Append(toks, Token("BINARY_OPERATOR", value, current_line)),
                             current_line)
              [] OTHER ->
                    tokenize_loop(s, mo[2],
                                  Append(toks, Token(kind, value, current_line)),
                                  current_line)

tokenize(s) == tokenize_loop(s, 1, <<>>, 1)

----------------------------------------------------------------------------
(* syntatic/ast_node.py *)

ASTNode(node_type, line, value) ==
    [node_type |-> node_type, line |-> line, value |-> value, children |-> <<>>]

add_child(node, child) == [node EXCEPT !.children = Append(@, child)]

----------------------------------------------------------------------------
(* syntatic/parser.py.  The cursor p is current_token_index + 1.  A rule   *)
(* returns [err, node, pos]: the exception raised (NoError when it         *)
(* returns), the node returned and the cursor it leaves.                   *)

TokenTypes == {"KEYWORD", "IDENTIFIER", "EQUAL", "UNARY_OPERATOR", "BINARY_OPERATOR",
               "SEMICOLON", "COMMA", "LPAREN", "RPAREN", "CONSTANT", "SKIP",
               "NEWLINE", "MISMATCH"}

Returns(node, p) == [err |-> NoError, node |-> node, pos |-> p]

Raises(e, p) == [err |-> e, node |-> NoNode, pos |-> p]

current_token(toks, p) == IF p <= Len(toks) THEN toks[p] ELSE NoToken

\* reading an attribute of current_token when it is None
NoneAttributeError ==
    [NoError EXCEPT !.exc = "AttributeError", !.stage = "parse", !.kind = "NoneType"]

\* TokenType.__eq__ reading .value of a str
StrAttributeError ==
    [NoError EXCEPT !.exc = "AttributeError", !.stage = "parse", !.kind = "str"]

ParserException(kind, expected_type, value, cur) ==
    [NoError EXCEPT !.exc = "Exception", !.stage = "parse", !.kind = kind,
                    !.expected = expected_type,
                    !.expected_value = IF kind = "value" THEN value ELSE None,
                    !.got = IF kind = "end of input" THEN "None" ELSE cur.t_type,
                    !.got_value = IF kind = "value" THEN cur.value ELSE None,
                    !.line = cur.line]

\* __error on the current token cur
error_token(cur, expected_type, value) ==
    IF cur = NoToken THEN ParserException("end of input", expected_type, value, cur)
    ELSE IF expected_type \notin TokenTypes THEN StrAttributeError
    ELSE IF cur.t_type = expected_type /\ value # None
    THEN ParserException("value", expected_type, value, cur)
    ELSE ParserException("type", expected_type, value, cur)

error(toks, p, expected_type, value) ==
    error_token(current_token(toks, p), expected_type, value)

\* an __eat that compares the type of the token only, never its value
eat_token_any(toks, p, cur, token_type, value) ==
    IF cur # NoToken /\ cur.t_type = token_type
    THEN Returns(NoNode, p + 1)
    ELSE Raises(error(toks, p, token_type, None), p)

\* __eat on the current token cur
eat_token(toks, p, cur, token_type, value) ==
    IF cur # NoToken /\ cur.t_type = token_type
    THEN IF value # None /\ cur.value # value
         THEN Raises(error(toks, p, token_type, value), p)
         ELSE Returns(NoNode, p + 1)
    ELSE Raises(error(toks, p, token_type, None), p)

eat(toks, p, token_type, value) ==
    eat_token(toks, p, current_token(toks, p), token_type, value)

\* the operator symbols of the two precedence levels
AddOps == {<<"+">>, <<"-">>}

MulOps == {<<"*">>, <<"/">>}

(* The rules call each other recursively.  The call stack is explicit: a   *)
(* frame holds the rule, the place "at" where it continues when the call   *)
(* it made returns, and its local node.  A machine m holds the cursor pos, *)
(* the stack (top first), the node ret the last call returned and the      *)
(* exception err raised (NoError while none is).  A statement of a rule    *)
(* takes the machine the statement before it leaves, and does nothing once *)
(* an exception is raised.                                                 *)

PFrame(rule, at, node) == [rule |-> rule, at |-> at, node |-> node]

\* self.__eat(token_type, value)
PEat(toks, m, token_type, value) ==
    IF m.err # NoError THEN m
    ELSE [m EXCEPT !.pos = eat(toks, m.pos, token_type, value).pos,
                   !.err = eat(toks, m.pos, token_type, value).err]

\* the running rule calls rule callee and continues at place at with local node
PCall(m, at, node, callee) ==
    IF m.err # NoError THEN m
    ELSE [m EXCEPT !.stack = <<PFrame(callee, 0, NoNode), PFrame(m.stack[1].rule, at, node)>>
                             \o Tail(m.stack)]

\* the running rule returns node
PReturn(m, node) ==
    IF m.err # NoError THEN m
    ELSE [m EXCEPT !.stack = Tail(m.stack), !.ret = node]

\* the running rule raises e
PRaise(m, e) == [m EXCEPT !.err = e]

\* __identifier, which calls no rule: its node is left in ret
identifier(toks, m) ==
    IF m.err # NoError THEN m
    ELSE IF current_token(toks, m.pos) = NoToken THEN PRaise(m, NoneAttributeError)
    ELSE PEat(toks, [m EXCEPT !.ret = ASTNode("Ident", current_token(toks, m.pos).line,
                                              current_token(toks, m.pos).value)],
              "IDENTIFIER", None)

\* after 'End' the tokens must be at their end
PEnd(toks, m) ==
    IF m.err # NoError \/ current_token(toks, m.pos) = NoToken THEN m
    ELSE PRaise(m, error(toks, m.pos, "NEWLINE", None))

\* a __program that takes nothing after 'End'
program_to_the_end(toks, m) ==
    CASE m.stack[1].at = 0 ->
            PCall(PEat(toks, m, "KEYWORD", <<"V", "a", "r">>),
                  1, ASTNode("Program", 1, None), "variable_declaration")
      [] m.stack[1].at = 1 ->
            PCall(PEat(toks, PEat(toks, PEat(toks, m, "NEWLINE", None),
                                  "KEYWORD", <<"B", "e", "g", "i", "n">>),
                       "NEWLINE", None),
                  2, add_child(m.stack[1].node, m.ret), "assignment_list")
      [] OTHER ->
            PReturn(PEnd(toks, PEat(toks, m, "KEYWORD", <<"E", "n", "d">>)),
                    add_child(m.stack[1].node, m.ret))

\* __program
program(toks, m) ==
    CASE m.stack[1].at = 0 ->
            PCall(PEat(toks, m, "KEYWORD", <<"V", "a", "r">>),
                  1, ASTNode("Program", 1, None), "variable_declaration")
      [] m.stack[1].at = 1 ->
            PCall(PEat(toks, PEat(toks, PEat(toks, m, "NEWLINE", None),
                                  "KEYWORD", <<"B", "e", "g", "i", "n">>),
                       "NEWLINE", None),
                  2, add_child(m.stack[1].node, m.ret), "assignment_list")
      [] OTHER ->
            PReturn(PEat(toks, m, "KEYWORD", <<"E", "n", "d">>),
                    add_child(m.stack[1].node, m.ret))

\* __variable_declaration
variable_declaration(toks, m) ==
    CASE m.stack[1].at = 0 ->
            IF current_token(toks, m.pos) = NoToken THEN PRaise(m, NoneAttributeError)
            ELSE PCall(m, 1, ASTNode("VarDecl", current_token(toks, m.pos).line, None),
                       "identifier_list")
      [] OTHER -> PReturn(m, add_child(m.stack[1].node, m.ret))

\* __identifier_list after an identifier: m1 is the machine the identifier
\* leaves, node the list with the identifier added
identifier_list_loop(toks, m1, node) ==
    IF m1.err # NoError THEN m1
    ELSE IF current_token(toks, m1.pos).t_type = "COMMA"
    THEN [m1 EXCEPT !.stack = <<PFrame("identifier_list", 1, node)>> \o Tail(m1.stack)]
    ELSE PReturn(PEat(toks, m1, "SEMICOLON", None), node)

\* the list of __identifier_list with the identifier m1 has read added
identifier_list_add(m, m1) ==
    add_child(IF m.stack[1].at = 0 THEN ASTNode("IdList", 1, None) ELSE m.stack[1].node,
              m1.ret)

\* the first identifier (at 0), or the ',' and the identifier after it (at 1)
identifier_list_next(toks, m) ==
    identifier(toks, IF m.stack[1].at = 0 THEN m ELSE PEat(toks, m, "COMMA", None))

\* __identifier_list: one identifier a step
identifier_list_step(toks, m, m1) ==
    identifier_list_loop(toks, m1, identifier_list_add(m, m1))

identifier_list(toks, m) == identifier_list_step(toks, m, identifier_list_next(toks, m))

\* an __assignment_list that may be empty
assignment_list_optional(toks, m) ==
    CASE m.stack[1].at = 0 ->
            IF current_token(toks, m.pos) = NoToken THEN PRaise(m, NoneAttributeError)
            ELSE IF current_token(toks, m.pos).t_type = "IDENTIFIER"
            THEN PCall(m, 1, ASTNode("AssignList", current_token(toks, m.pos).line, None),
                       "assignment")
            ELSE PReturn(m, ASTNode("AssignList", current_token(toks, m.pos).line, None))
      [] OTHER ->
            IF current_token(toks, m.pos).t_type = "IDENTIFIER"
            THEN PCall(m, 1, add_child(m.stack[1].node, m.ret), "assignment")
            ELSE PReturn(m, add_child(m.stack[1].node, m.ret))

\* __assignment_list
assignment_list(toks, m) ==
    CASE m.stack[1].at = 0 ->
            IF current_token(toks, m.pos) = NoToken THEN PRaise(m, NoneAttributeError)
            ELSE PCall(m, 1, ASTNode("AssignList", current_token(toks, m.pos).line, None),
                       "assignment")
      [] OTHER ->
            IF current_token(toks, m.pos).t_type = "IDENTIFIER"
            THEN PCall(m, 1, add_child(m.stack[1].node, m.ret), "assignment")
            ELSE PReturn(m, add_child(m.stack[1].node, m.ret))

\* the target of __assignment has been read by m1
assignment_target(toks, m, m1) ==
    PCall(PEat(toks, m1, "EQUAL", None), 1,
          add_child(ASTNode("Assign", current_token(toks, m.pos).line, None), m1.ret),
          "expression")

\* __assignment
assignment(toks, m) ==
    CASE m.stack[1].at = 0 ->
            IF current_token(toks, m.pos) = NoToken THEN PRaise(m, NoneAttributeError)
            ELSE assignment_target(toks, m, identifier(toks, m))
      [] OTHER ->
            PReturn(PEat(toks, PEat(toks, m, "SEMICOLON", None), "NEWLINE", None),
                    add_child(m.stack[1].node, m.ret))

\* the node of a binary loop when an operand has returned: the first operand
\* (at 1), or op_node (the frame's node) with its right operand added (at 2)
binary_node(m) == IF m.stack[1].at = 1 THEN m.ret ELSE add_child(m.stack[1].node, m.ret)

\* a loop that parses what follows an operator with the rule itself, not with
\* the operand rule: the chain folds to the right
binary_loop_right(toks, m, ops, operand) ==
    IF m.stack[1].at = 0 THEN PCall(m, 1, NoNode, operand)
    ELSE IF /\ current_token(toks, m.pos).t_type = "BINARY_OPERATOR"
            /\ current_token(toks, m.pos).value \in ops
    THEN PCall(PEat(toks, m, current_token(toks, m.pos).t_type, None), 2,
               add_child(ASTNode("BinOp", current_token(toks, m.pos).line,
                                 current_token(toks, m.pos).value),
                         binary_node(m)),
               m.stack[1].rule)
    ELSE PReturn(m, binary_node(m))

\* a loop that calls the operand rule at the operator, which it does not eat
binary_loop_stay(toks, m, ops, operand) ==
    IF m.stack[1].at = 0 THEN PCall(m, 1, NoNode, operand)
    ELSE IF /\ current_token(toks, m.pos).t_type = "BINARY_OPERATOR"
            /\ current_token(toks, m.pos).value \in ops
    THEN PCall(m, 2,
               add_child(ASTNode("BinOp", current_token(toks, m.pos).line,
                                 current_token(toks, m.pos).value),
                         binary_node(m)),
               operand)
    ELSE PReturn(m, binary_node(m))

\* the loop of __expression (ops = '+', '-', operand = term) and of __term
\* (ops = '*', '/', operand = factor): at 0 the rule calls its first operand;
\* at 1 and 2 an operand has returned and the "while" tests the current token
binary_loop(toks, m, ops, operand) ==
    IF m.stack[1].at = 0 THEN PCall(m, 1, NoNode, operand)
    ELSE IF /\ current_token(toks, m.pos).t_type = "BINARY_OPERATOR"
            /\ current_token(toks, m.pos).value \in ops
    THEN PCall(PEat(toks, m, current_token(toks, m.pos).t_type, None), 2,
               add_child(ASTNode("BinOp", current_token(toks, m.pos).line,
                                 current_token(toks, m.pos).value),
                         binary_node(m)),
               operand)
    ELSE PReturn(m, binary_node(m))

\* a __term that takes '+' and '-' too: one level for the four operators
term_flat(toks, m) == binary_loop(toks, m, AddOps \cup MulOps, "factor")

\* __expression
expression(toks, m) == binary_loop(toks, m, AddOps, "term")

\* __term
term(toks, m) == binary_loop(toks, m, MulOps, "factor")

\* a __factor whose unary operator takes a whole expression as its operand
factor_token_loose(toks, m, cur) ==
    IF cur = NoToken THEN PRaise(m, NoneAttributeError)
    ELSE IF cur.t_type = "LPAREN"
    THEN PCall(PEat(toks, m, "LPAREN", None), 1, NoNode, "expression")
    ELSE IF cur.t_type = "UNARY_OPERATOR"
    THEN PCall(PEat(toks, m, "UNARY_OPERATOR", None), 2,
               ASTNode("UnaryOp", cur.line, cur.value), "expression")
    ELSE IF cur.t_type = "IDENTIFIER"
    THEN PReturn(PEat(toks, m, "IDENTIFIER", None), ASTNode("Ident", cur.line, cur.value))
    ELSE IF cur.t_type = "CONSTANT"
    THEN PReturn(PEat(toks, m, "CONSTANT", None), ASTNode("Constant", cur.line, cur.value))
    ELSE PRaise(m, error(toks, m.pos, "IDENTIFIER or CONSTANT", None))

\* __factor on the current token cur
factor_token(toks, m, cur) ==
    IF cur = NoToken THEN PRaise(m, NoneAttributeError)
    ELSE IF cur.t_type = "LPAREN"
    THEN PCall(PEat(toks, m, "LPAREN", None), 1, NoNode, "expression")
    ELSE IF cur.t_type = "UNARY_OPERATOR"
    THEN PCall(PEat(toks, m, "UNARY_OPERATOR", None), 2,
               ASTNode("UnaryOp", cur.line, cur.value), "factor")
    ELSE IF cur.t_type = "IDENTIFIER"
    THEN PReturn(PEat(toks, m, "IDENTIFIER", None), ASTNode("Ident", cur.line, cur.value))
    ELSE IF cur.t_type = "CONSTANT"
    THEN PReturn(PEat(toks, m, "CONSTANT", None), ASTNode("Constant", cur.line, cur.value))
    ELSE PRaise(m, error(toks, m.pos, "IDENTIFIER or CONSTANT", None))

\* __factor
factor(toks, m) ==
    CASE m.stack[1].at = 0 -> factor_token(toks, m, current_token(toks, m.pos))
      [] m.stack[1].at = 1 -> PReturn(PEat(toks, m, "RPAREN", None), m.ret)
      [] OTHER -> PReturn(m, add_child(m.stack[1].node, m.ret))

\* the running rule runs to its next call, return or raise
ParserStep(toks, m) ==
    CASE m.stack[1].rule = "program" -> program(toks, m)
      [] m.stack[1].rule = "variable_declaration" -> variable_declaration(toks, m)
      [] m.stack[1].rule = "identifier_list" -> identifier_list(toks, m)
      [] m.stack[1].rule = "assignment_list" -> assignment_list(toks, m)
      [] m.stack[1].rule = "assignment" -> assignment(toks, m)
      [] m.stack[1].rule = "expression" -> expression(toks, m)
      [] m.stack[1].rule = "term" -> term(toks, m)
      [] OTHER -> factor(toks, m)

RECURSIVE ParserRun(_, _)
ParserRun(toks, m) ==
    IF m.err # NoError \/ m.stack = <<>> THEN m ELSE ParserRun(toks, ParserStep(toks, m))

\* Parser(tokens): current_token_index = 0, and the call of __program
Parser(toks) ==
    [pos |-> 1, stack |-> <<PFrame("program", 0, NoNode)>>, ret |-> NoNode,
     err |-> NoError]

\* a parse that catches the exception and returns the Program node built so far
ParserResult_partial(m) ==
    Returns(IF m.stack = <<>> THEN m.ret ELSE m.stack[Len(m.stack)].node, m.pos)

\* what parse leaves when the machine has stopped in m
ParserResult(m) == IF m.err # NoError THEN Raises(m.err, m.pos) ELSE Returns(m.ret, m.pos)

\* parse: the exception it raises, the node it returns and the cursor it leaves
parse(toks) == ParserResult(ParserRun(toks, Parser(toks)))

----------------------------------------------------------------------------
(* semantic/analyzer.py.  symbol_table maps every declared name to None:   *)
(* it is the set of its keys.  The recursion of visit is the stack         *)
(* sem_stack of the visits and handler tails still to run, top first;      *)
(* sem_node is the node of the handler that ran last.                      *)

Frame(op, node) == [op |-> op, node |-> node]

\* "for child in node.children: self.visit(child)", pushed in order
VisitChildren(node) == [i \in 1..Len(node.children) |-> Frame("visit", node.children[i])]

SemanticError(kind, node) ==
    [NoError EXCEPT !.exc = "Exception", !.stage = "check", !.kind = kind,
                    !.got_value = node.value, !.line = node.line]

\* a visit_Ident that reports every undeclared name on line 1
visit_Ident_fixed_line(node, table, initialized, visited) ==
    IF node.value \notin table
    THEN [SemanticError("not declared", node) EXCEPT !.line = 1]
    ELSE IF node.value \notin initialized /\ visited
    THEN SemanticError("not initialized", node)
    ELSE NoError

\* the exception visit_Ident raises on node, NoError when it returns
visit_Ident_raises(node, table, initialized, visited) ==
    IF node.value \notin table THEN SemanticError("not declared", node)
    ELSE IF node.value \notin initialized /\ visited
    THEN SemanticError("not initialized", node)
    ELSE NoError

\* a visit_IdList that registers every name and never tests for an earlier one
visit_IdList_unchecked(node, i, table, initialized, visited) ==
    [err |-> NoError,
     table |-> table \cup {node.children[k].value : k \in i..Len(node.children)}]

RECURSIVE visit_IdList_loop(_, _, _, _, _)
\* the loop of visit_IdList from child i on: the error raised and the table
visit_IdList_loop(node, i, table, initialized, visited) ==
    IF i > Len(node.children) THEN [err |-> NoError, table |-> table]
    ELSE LET child == node.children[i]
         IN IF child.value \in table
            THEN [err |-> SemanticError("redeclared", child), table |-> table]
            ELSE LET t == table \cup {child.value}
                     e == visit_Ident_raises(child, t, initialized, visited)
                 IN IF e # NoError THEN [err |-> e, table |-> t]
                    ELSE visit_IdList_loop(node, i + 1, t, initialized, visited)

\* a visit_Assign that leaves the test of its target to visit_Ident
visit_Assign_raises_never(node, table) == NoError

\* the exception visit_Assign raises before it visits its children
visit_Assign_raises(node, table) ==
    LET ident_node == node.children[1]
    IN IF ident_node.value \notin table
       THEN SemanticError("not declared", ident_node)
       ELSE NoError

\* a visit_Assign that does not record its target
visit_Assign_initialized_never(node, initialized) == initialized

\* the names visit_Assign leaves in initialized_vars
visit_Assign_initialized(node, initialized) == initialized \cup {node.children[1].value}

SemTop == sem_stack[1]

SemVisiting(node_types) ==
    /\ stage = "check"
    /\ sem_stack # <<>>
    /\ SemTop.op = "visit"
    /\ SemTop.node.node_type \in node_types

\* an error that is recorded while the analysis goes on
SemRaise_continue(e) ==
    /\ raised' = e
    /\ stage' = stage
    /\ sem_stack' = Tail(sem_stack)

SemRaise(e) ==
    /\ raised' = e
    /\ stage' = "failed"
    /\ UNCHANGED sem_stack

\* a handler that only visits the children of its node
SemDescend ==
    /\ sem_node' = SemTop.node
    /\ sem_stack' = VisitChildren(SemTop.node) \o Tail(sem_stack)
    /\ UNCHANGED <<parser, generate_calls, other, code, stage, tokens, current_token_index, ast, raised, symbol_table,
                   initialized_vars, var_Visited, generated_code, gen_stack>>

visit_Program == SemVisiting({"Program"}) /\ SemDescend

visit_AssignList == SemVisiting({"AssignList"}) /\ SemDescend

\* BinOp, UnaryOp and Constant have no visit_ method
generic_visit == SemVisiting({"BinOp", "UnaryOp", "Constant"}) /\ SemDescend

visit_VarDecl ==
    /\ SemVisiting({"VarDecl"})
    /\ sem_node' = SemTop.node
    /\ sem_stack' = VisitChildren(SemTop.node) \o <<Frame("VarDecl_tail", SemTop.node)>>
                        \o Tail(sem_stack)
    /\ UNCHANGED <<parser, generate_calls, other, code, stage, tokens, current_token_index, ast, raised, symbol_table,
                   initialized_vars, var_Visited, generated_code, gen_stack>>

\* "self.var_Visited = True" after the children of VarDecl
visit_VarDecl_tail ==
    /\ stage = "check"
    /\ sem_stack # <<>>
    /\ SemTop.op = "VarDecl_tail"
    /\ var_Visited' = TRUE
    /\ sem_node' = SemTop.node
    /\ sem_stack' = Tail(sem_stack)
    /\ UNCHANGED <<parser, generate_calls, other, code, stage, tokens, current_token_index, ast, raised, symbol_table,
                   initialized_vars, generated_code, gen_stack>>

visit_IdList ==
    /\ SemVisiting({"IdList"})
    /\ sem_node' = SemTop.node
    /\ LET r == visit_IdList_loop(SemTop.node, 1, symbol_table, initialized_vars, var_Visited)
       IN /\ symbol_table' = r.table
          /\ IF r.err # NoError THEN SemRaise(r.err)
             ELSE /\ sem_stack' = Tail(sem_stack)
                  /\ UNCHANGED <<raised, stage>>
    /\ UNCHANGED <<parser, generate_calls, other, code, tokens, current_token_index, ast, initialized_vars, var_Visited,
                   generated_code, gen_stack>>

visit_Ident ==
    /\ SemVisiting({"Ident"})
    /\ sem_node' = SemTop.node
    /\ LET e == visit_Ident_raises(SemTop.node, symbol_table, initialized_vars, var_Visited)
       IN IF e # NoError THEN SemRaise(e)
          ELSE /\ sem_stack' = Tail(sem_stack)
               /\ UNCHANGED <<raised, stage>>
    /\ UNCHANGED <<parser, generate_calls, other, code, tokens, current_token_index, ast, symbol_table, initialized_vars,
                   var_Visited, generated_code, gen_stack>>

visit_Assign ==
    /\ SemVisiting({"Assign"})
    /\ sem_node' = SemTop.node
    /\ LET e == visit_Assign_raises(SemTop.node, symbol_table)
       IN IF e # NoError
          THEN SemRaise(e) /\ UNCHANGED initialized_vars
          ELSE /\ initialized_vars' = visit_Assign_initialized(SemTop.node, initialized_vars)
               /\ sem_stack' = VisitChildren(SemTop.node) \o Tail(sem_stack)
               /\ UNCHANGED <<raised, stage>>
    /\ UNCHANGED <<parser, generate_calls, other, code, tokens, current_token_index, ast, symbol_table, var_Visited,
                   generated_code, gen_stack>>

----------------------------------------------------------------------------
(* codegenerator/translytor.py.  The recursion of _generate_node is the    *)
(* stack gen_stack of the nodes still to generate and the statements       *)
(* still to run between them, top first.                                   *)

GenFrame(op, node, text) == [op |-> op, node |-> node, text |-> text]

GenNode(node) == GenFrame("node", node, <<>>)

GenAppend(text) == GenFrame("append", NoNode, text)

RECURSIVE rstrip(_, _)
\* str.rstrip(chars): text without its trailing characters of the set chars
rstrip(text, chars) ==
    IF text # <<>> /\ text[Len(text)] \in chars
    THEN rstrip(SubSeq(text, 1, Len(text) - 1), chars)
    ELSE text

GenTop == gen_stack[1]

Generating(node_types) ==
    /\ stage = "emit"
    /\ gen_stack # <<>>
    /\ GenTop.op = "node"
    /\ GenTop.node.node_type \in node_types

\* a generator that takes the children off the Program node as it goes
GenStep_detach(text, frames) ==
    /\ generated_code' = text
    /\ gen_stack' = frames \o Tail(gen_stack)
    /\ ast' = [ast EXCEPT !.children = <<>>]
    /\ UNCHANGED <<parser, generate_calls, other, code, stage, tokens, current_token_index,
                   raised, symbol_table, initialized_vars, var_Visited, sem_stack, sem_node>>

\* one step of the generator: the text it leaves and the frames it pushes
GenStep(text, frames) ==
    /\ generated_code' = text
    /\ gen_stack' = frames \o Tail(gen_stack)
    /\ UNCHANGED <<parser, generate_calls, other, code, stage, tokens, current_token_index, ast, raised, symbol_table,
                   initialized_vars, var_Visited, sem_stack, sem_node>>

generate_Program ==
    /\ Generating({"Program"})
    /\ GenStep(generated_code,
               [i \in 1..Len(GenTop.node.children) |-> GenNode(GenTop.node.children[i])])

generate_VarDecl ==
    /\ Generating({"VarDecl"})
    /\ GenStep(generated_code \o <<"V", "a", "r", " ">>,
               <<GenNode(GenTop.node.children[1]), GenFrame("VarDecl_tail", NoNode, <<>>)>>)

\* "self.generated_code = self.generated_code.rstrip(', ')" of VarDecl
generate_VarDecl_tail ==
    /\ stage = "emit"
    /\ gen_stack # <<>>
    /\ GenTop.op = "VarDecl_tail"
    /\ GenStep(rstrip(generated_code, {",", " "}), <<>>)

\* for each child: the child, then ", "
IdListFrames(node) ==
    [i \in 1..(2 * Len(node.children)) |->
        IF i % 2 = 1 THEN GenNode(node.children[(i + 1) \div 2])
        ELSE GenAppend(<<",", " ">>)]

generate_IdList ==
    /\ Generating({"IdList"})
    /\ GenStep(generated_code,
               IdListFrames(GenTop.node) \o <<GenFrame("IdList_tail", NoNode, <<>>)>>)

\* the rstrip(', ') and the ";\n" after the loop of IdList
generate_IdList_tail ==
    /\ stage = "emit"
    /\ gen_stack # <<>>
    /\ GenTop.op = "IdList_tail"
    /\ GenStep(rstrip(generated_code, {",", " "}) \o <<";", NL>>, <<>>)

generate_Ident ==
    /\ Generating({"Ident"})
    /\ GenStep(generated_code \o GenTop.node.value, <<>>)

generate_Constant ==
    /\ Generating({"Constant"})
    /\ GenStep(generated_code \o GenTop.node.value, <<>>)

generate_AssignList ==
    /\ Generating({"AssignList"})
    /\ GenStep(generated_code,
               [i \in 1..Len(GenTop.node.children) |-> GenNode(GenTop.node.children[i])])

generate_Assign ==
    /\ Generating({"Assign"})
    /\ GenStep(generated_code,
               <<GenNode(GenTop.node.children[1]), GenAppend(<<" ", "=", " ">>),
                 GenNode(GenTop.node.children[2]), GenAppend(<<";", NL>>)>>)

\* the branch with the operator written without the spaces around it
BinOpFrames_no_space(node) ==
    <<GenNode(node.children[1])>>
    \o (IF node.node_type = "BinOp" THEN <<GenAppend(node.value)>> ELSE <<>>)
    \o (IF Len(node.children) = 2 THEN <<GenNode(node.children[2])>> ELSE <<>>)

\* the frames of the branch "node_type in ('BinOp', 'UnaryOp')"
BinOpFrames(node) ==
    <<GenNode(node.children[1])>>
    \o (IF node.node_type = "BinOp"
        THEN <<GenAppend(<<" ">> \o node.value \o <<" ">>)>> ELSE <<>>)
    \o (IF Len(node.children) = 2 THEN <<GenNode(node.children[2])>> ELSE <<>>)

generate_BinOp_UnaryOp ==
    /\ Generating({"BinOp", "UnaryOp"})
    /\ GenStep(generated_code, BinOpFrames(GenTop.node))

\* a "self.generated_code += ..." that follows a recursive call
generate_append ==
    /\ stage = "emit"
    /\ gen_stack # <<>>
    /\ GenTop.op = "append"
    /\ GenStep(generated_code \o GenTop.text, <<>>)

----------------------------------------------------------------------------
(* main.py: tokenize, parse, analyze, generate; an exception ends the run  *)

\* what tokenize leaves: its result r
tokenize_result(r) ==
    IF r.err # NoError
    THEN /\ raised' = r.err
         /\ stage' = "failed"
         /\ UNCHANGED tokens
    ELSE /\ tokens' = r.tokens
         /\ stage' = "parse"
         /\ UNCHANGED raised

Tokenizer_tokenize ==
    /\ stage = "scan"
    /\ tokenize_result(tokenize(code))
    /\ UNCHANGED <<parser, generate_calls, other, code, current_token_index, ast, symbol_table, initialized_vars,
                   var_Visited, sem_stack, sem_node, generated_code, gen_stack>>

\* what parse leaves: its result r; when it returns, SemanticAnalyzer(ast)
\* and the call of analyze
parse_result(r) ==
    /\ current_token_index' = r.pos - 1
    /\ IF r.err # NoError
       THEN /\ raised' = r.err
            /\ stage' = "failed"
            /\ UNCHANGED <<ast, sem_stack>>
       ELSE /\ ast' = r.node
            /\ stage' = "check"
            /\ sem_stack' = <<Frame("visit", r.node)>>
            /\ UNCHANGED raised

Parser_parse ==
    /\ stage = "parse"
    /\ parse_result(parse(tokens))
    /\ UNCHANGED <<parser, generate_calls, other, code, tokens, symbol_table, initialized_vars, var_Visited,
                   sem_node, generated_code, gen_stack>>

\* analyze returns; CodeGenerator(ast) and the call of generate
SemanticAnalyzer_analyze_returns ==
    /\ stage = "check"
    /\ sem_stack = <<>>
    /\ stage' = "emit"
    /\ gen_stack' = <<GenNode(ast)>>
    /\ generate_calls' = 1
    /\ UNCHANGED <<parser, other, code, tokens, current_token_index, ast, raised, symbol_table,
                   initialized_vars, var_Visited, sem_stack, sem_node, generated_code>>

CodeGenerator_generate_returns ==
    /\ stage = "emit"
    /\ gen_stack = <<>>
    /\ stage' = "done"
    /\ UNCHANGED <<parser, generate_calls, other, code, tokens, current_token_index, ast, raised, symbol_table,
                   initialized_vars, var_Visited, sem_stack, sem_node, generated_code,
                   gen_stack>>

----------------------------------------------------------------------------
(* The programs of the model.  A program is a sequence of lexemes, written *)
(* with one space between two lexemes.                                     *)

MaxDecl == 2

MaxAssign == 2

MaxOperands == 3

Var == <<"V", "a", "r">>

Begin == <<"B", "e", "g", "i", "n">>

End == <<"E", "n", "d">>

RECURSIVE Join(_)
\* the text of a sequence of lexemes
Join(lexemes) ==
    IF lexemes = <<>> THEN <<>>
    ELSE IF Len(lexemes) = 1 THEN lexemes[1]
    ELSE lexemes[1] \o <<" ">> \o Join(Tail(lexemes))

RECURSIVE Concat(_)
Concat(seqs) == IF seqs = <<>> THEN <<>> ELSE seqs[1] \o Concat(Tail(seqs))

\* the sequences over set S of length lo..hi
SeqsOf(S, lo, hi) == UNION {[1..n -> S] : n \in lo..hi}

\* d1 , d2 , ... ;
DeclLexemes(names) ==
    Concat([i \in 1..Len(names) |->
               IF i = 1 THEN <<names[i]>> ELSE <<<<",">>, names[i]>>]) \o <<<<";">>>>

AssignLexemes(target, expr) == <<target, <<"=">>>> \o expr \o <<<<";">>, <<NL>>>>

ProgramLexemes(names, assigns) ==
    <<Var>> \o DeclLexemes(names) \o <<<<NL>>, Begin, <<NL>>>> \o Concat(assigns)
    \o <<End>>

Names == {<<"x">>, <<"y">>}

\* the right-hand sides of the programs that vary declarations and references
RefExprs == {<< <<"5">> >>, << <<"x">> >>, << <<"y">> >>, << <<"x">>, <<"+">>, <<"y">> >>,
             << <<"x">>, <<"+">>, <<"1", "0">> >>}

RefAssigns == {AssignLexemes(t, e) : t \in Names, e \in RefExprs}

\* every declaration list of 1..MaxDecl names, every list of 1..MaxAssign
\* assignments of which the ones before the last write a constant
RefPrograms ==
    {ProgramLexemes(d, w \o <<a>>) :
        d \in SeqsOf(Names, 1, MaxDecl),
        w \in SeqsOf({AssignLexemes(t, << <<"5">> >>) : t \in Names}, 0, MaxAssign - 1),
        a \in RefAssigns}

Ops == {<<"+">>, <<"-">>, <<"*">>, <<"/">>}

OperandList == << <<"x">>, <<"5">>, <<"1", "0">> >>

\* the i-th operand of an expression
Operand(i) == OperandList[((i - 1) % Len(OperandList)) + 1]

\* the lexemes of the expression of n operands with operators ops (n - 1 of
\* them), a unary minus before operand u (0: none) and parentheses around
\* the operands g[1]..g[2] (g[1] = 0: none), with a unary minus before the
\* parenthesis when g[3]
ExprLexemes(n, ops, u, g) ==
    Concat([i \in 1..n |->
        (IF i > 1 THEN <<ops[i - 1]>> ELSE <<>>)
        \o (IF g[1] = i /\ g[3] THEN << <<"-">> >> ELSE <<>>)
        \o (IF g[1] = i THEN << <<"(">> >> ELSE <<>>)
        \o (IF u = i THEN << <<"-">> >> ELSE <<>>)
        \o <<Operand(i)>>
        \o (IF g[1] # 0 /\ g[2] = i THEN << <<")">> >> ELSE <<>>)])

Groups(n) == {<<0, 0, FALSE>>}
             \cup {g \in (1..n) \X (1..n) \X BOOLEAN : g[1] < g[2]}

Exprs == UNION {{ExprLexemes(n, ops, u, g) :
                    ops \in [1..(n - 1) -> Ops], u \in 0..n, g \in Groups(n)} :
                n \in 1..MaxOperands}

\* one assignment to x of every expression
ExprPrograms == {ProgramLexemes(<< <<"x">> >>, <<AssignLexemes(<<"x">>, e)>>) : e \in Exprs}

\* a program with every construct, and its one-lexeme edits
BaseProgram ==
    ProgramLexemes(<< <<"x">>, <<"y">> >>,
        << AssignLexemes(<<"x">>, << <<"5">> >>),
           AssignLexemes(<<"y">>, << <<"-">>, <<"(">>, <<"x">>, <<"+">>, <<"5">>, <<")">>,
                                     <<"*">>, <<"1", "0">> >>) >>)

EditLexemes == {<<"x">>, <<"5">>, <<";">>, <<NL>>, <<"=">>, <<"-">>, <<")">>, Var, Begin,
                End, <<"$">>, <<"5", "x">>, <<"5", "x", "$">>}

EditedPrograms ==
    LET b == BaseProgram
    IN {SubSeq(b, 1, k) : k \in 0..Len(b)}
       \cup {SubSeq(b, 1, k - 1) \o SubSeq(b, k + 1, Len(b)) : k \in 1..Len(b)}
       \cup {[b EXCEPT ![k] = l] : k \in 1..Len(b), l \in EditLexemes}
       \cup {b \o <<l>> : l \in EditLexemes}

\* the sample program: declarations x, y and assignments x = 5, y = x + 10
SampleProgram ==
    ProgramLexemes(<< <<"x">>, <<"y">> >>,
        << AssignLexemes(<<"x">>, << <<"5">> >>),
           AssignLexemes(<<"y">>, << <<"x">>, <<"+">>, <<"1", "0">> >>) >>)

\* the lexemes p with a line break before the first (lead), four spaces
\* after every line break (indent), and a line break and two spaces after the
\* last (trail)
Layout(p, lead, indent, trail) ==
    (IF lead THEN << <<NL>> >> ELSE <<>>)
    \o [i \in 1..Len(p) |->
           IF indent /\ p[i] = <<NL>> THEN <<NL, " ", " ", " ", " ">> ELSE p[i]]
    \o (IF trail THEN << <<NL, " ", " ">> >> ELSE <<>>)

LayoutBases == {BaseProgram, SampleProgram}

LayoutPrograms ==
    {Layout(p, lead, indent, trail) :
        p \in LayoutBases, lead \in BOOLEAN, indent \in BOOLEAN, trail \in BOOLEAN}

\* what may stand between a '-' and the lexeme before it
Gaps == {<<>>, <<" ">>, <<"\t">>, <<"\t", " ">>}

\* a = -5; b = -(10 + 3); a = 5 - 3; with gap g before every '-'
MinusProgram(g) ==
    <<Var, <<"a">>, <<",">>, <<"b">>, <<";">>, <<NL>>, Begin, <<NL>>,
      <<"a">>, <<"=">> \o g \o <<"-">>, <<"5">>, <<";">>, <<NL>>,
      <<"b">>, <<"=">> \o g \o <<"-">>, <<"(">>, <<"1", "0">>, <<"+">>, <<"3">>, <<")">>,
      <<";">>, <<NL>>,
      <<"a">>, <<"=">>, <<"5">> \o g \o <<"-">>, <<"3">>, <<";">>, <<NL>>, End>>

MinusPrograms == {MinusProgram(g) : g \in Gaps}

\* Var x; x = -5;
NegativeProgram ==
    ProgramLexemes(<< <<"x">> >>, << AssignLexemes(<<"x">>, << <<"-", "5">> >>) >>)

\* Var x; Begin End, without an assignment
EmptyBlockProgram == <<Var, <<"x">>, <<";">>, <<NL>>, Begin, <<NL>>, End>>

\* Var x; x = --5;
DoubleMinusProgram ==
    ProgramLexemes(<< <<"x">> >>, << AssignLexemes(<<"x">>, << <<"-", "-", "5">> >>) >>)

Programs ==
    RefPrograms \cup ExprPrograms \cup EditedPrograms \cup LayoutPrograms \cup MinusPrograms
    \cup {NegativeProgram, EmptyBlockProgram, DoubleMinusProgram}

----------------------------------------------------------------------------

\* no parser yet
NoParser == [pos |-> 1, stack |-> <<>>, ret |-> NoNode, err |-> NoError]

\* the objects of a run on text c, before its first stage
Fresh(c) ==
    [code |-> c, stage |-> "scan", tokens |-> <<>>, current_token_index |-> 0,
     ast |-> NoNode, raised |-> NoError, symbol_table |-> {}, initialized_vars |-> {},
     var_Visited |-> FALSE, sem_stack |-> <<>>, sem_node |-> NoNode,
     generated_code |-> <<>>, gen_stack |-> <<>>, parser |-> NoParser,
     generate_calls |-> 0]

\* the objects of this run
ThisRun ==
    [code |-> code, stage |-> stage, tokens |-> tokens,
     current_token_index |-> current_token_index, ast |-> ast, raised |-> raised,
     symbol_table |-> symbol_table, initialized_vars |-> initialized_vars,
     var_Visited |-> var_Visited, sem_stack |-> sem_stack, sem_node |-> sem_node,
     generated_code |-> generated_code, gen_stack |-> gen_stack, parser |-> parser,
     generate_calls |-> generate_calls]

\* no second run
NoRun == [Fresh(<<>>) EXCEPT !.stage = "None"]

\* this run has the objects r
Holds(r) ==
    /\ code = r.code
    /\ stage = r.stage
    /\ tokens = r.tokens
    /\ current_token_index = r.current_token_index
    /\ ast = r.ast
    /\ raised = r.raised
    /\ symbol_table = r.symbol_table
    /\ initialized_vars = r.initialized_vars
    /\ var_Visited = r.var_Visited
    /\ sem_stack = r.sem_stack
    /\ sem_node = r.sem_node
    /\ generated_code = r.generated_code
    /\ gen_stack = r.gen_stack
    /\ parser = r.parser
    /\ generate_calls = r.generate_calls

Init ==
    /\ \E p \in Programs : Holds(Fresh(Join(p)))
    /\ other = NoRun

Next ==
    \/ Tokenizer_tokenize
    \/ Parser_parse
    \/ visit_Program
    \/ visit_VarDecl
    \/ visit_VarDecl_tail
    \/ visit_IdList
    \/ visit_Ident
    \/ visit_AssignList
    \/ visit_Assign
    \/ generic_visit
    \/ SemanticAnalyzer_analyze_returns
    \/ generate_Program
    \/ generate_VarDecl
    \/ generate_VarDecl_tail
    \/ generate_IdList
    \/ generate_IdList_tail
    \/ generate_Ident
    \/ generate_Constant
    \/ generate_AssignList
    \/ generate_Assign
    \/ generate_BinOp_UnaryOp
    \/ generate_append
    \/ CodeGenerator_generate_returns

Spec == Init /\ [][Next]_vars

----------------------------------------------------------------------------
(* Two runs of the pipeline, each with its own Tokenizer, Parser,          *)
(* SemanticAnalyzer and CodeGenerator, interleaved step by step: one run   *)
(* is this run, the second waits in "other".                               *)

\* the second run goes on with the symbol table this run has filled
Resume_shared_table(r) ==
    /\ code' = r.code
    /\ stage' = r.stage
    /\ tokens' = r.tokens
    /\ current_token_index' = r.current_token_index
    /\ ast' = r.ast
    /\ raised' = r.raised
    /\ symbol_table' = symbol_table
    /\ initialized_vars' = r.initialized_vars
    /\ var_Visited' = r.var_Visited
    /\ sem_stack' = r.sem_stack
    /\ sem_node' = r.sem_node
    /\ generated_code' = r.generated_code
    /\ gen_stack' = r.gen_stack
    /\ parser' = r.parser
    /\ generate_calls' = r.generate_calls

\* the run with the objects r goes on
Resume(r) ==
    /\ code' = r.code
    /\ stage' = r.stage
    /\ tokens' = r.tokens
    /\ current_token_index' = r.current_token_index
    /\ ast' = r.ast
    /\ raised' = r.raised
    /\ symbol_table' = r.symbol_table
    /\ initialized_vars' = r.initialized_vars
    /\ var_Visited' = r.var_Visited
    /\ sem_stack' = r.sem_stack
    /\ sem_node' = r.sem_node
    /\ generated_code' = r.generated_code
    /\ gen_stack' = r.gen_stack
    /\ parser' = r.parser
    /\ generate_calls' = r.generate_calls

\* this run waits and the second run goes on
Switch ==
    /\ other # NoRun
    /\ Resume(other)
    /\ other' = ThisRun

\* the programs of the two runs: two that pass, one with a name declared
\* twice, one without its assignments, one with a '$'
RunPrograms ==
    {BaseProgram, NegativeProgram,
     ProgramLexemes(<< <<"x">>, <<"x">> >>, << AssignLexemes(<<"x">>, << <<"5">> >>) >>),
     SubSeq(BaseProgram, 1, 8),
     [NegativeProgram EXCEPT ![2] = <<"$">>]}

InitRuns ==
    /\ \E p \in RunPrograms : Holds(Fresh(Join(p)))
    /\ other \in {Fresh(Join(p)) : p \in RunPrograms}

NextRuns == Next \/ Switch

SpecRuns == InitRuns /\ [][NextRuns]_vars

----------------------------------------------------------------------------
(* parse, rule by rule: a step runs the rule on top of the call stack to   *)
(* its next call, return or raise.                                          *)

\* parser = Parser(tokens)
Parser_init ==
    /\ stage = "parse"
    /\ parser = NoParser
    /\ parser' = Parser(tokens)
    /\ UNCHANGED <<generate_calls, other, code, stage, tokens, current_token_index, ast,
                   raised, symbol_table, initialized_vars, var_Visited, sem_stack,
                   sem_node, generated_code, gen_stack>>

\* the rule on top of the stack runs on
Parser_step ==
    /\ stage = "parse"
    /\ parser # NoParser
    /\ parser.err = NoError
    /\ parser.stack # <<>>
    /\ parser' = ParserStep(tokens, parser)
    /\ current_token_index' = parser'.pos - 1
    /\ UNCHANGED <<generate_calls, other, code, stage, tokens, ast, raised, symbol_table,
                   initialized_vars, var_Visited, sem_stack, sem_node, generated_code,
                   gen_stack>>

\* __program has returned, or a rule has raised
Parser_parse_ends ==
    /\ stage = "parse"
    /\ parser # NoParser
    /\ parser.err # NoError \/ parser.stack = <<>>
    /\ parse_result(ParserResult(parser))
    /\ UNCHANGED <<parser, generate_calls, other, code, tokens, symbol_table,
                   initialized_vars, var_Visited, sem_node, generated_code, gen_stack>>

\* the programs parse runs on rule by rule
ParserPrograms ==
    EditedPrograms \cup LayoutPrograms \cup MinusPrograms
    \cup {NegativeProgram, EmptyBlockProgram, DoubleMinusProgram}

\* the objects of a run on text c when tokenize has returned
Tokenized(c) == [Fresh(c) EXCEPT !.stage = "parse", !.tokens = tokenize(c).tokens]

\* the token lists tokenize returns for the programs
InitParser ==
    /\ \E p \in ParserPrograms :
           /\ tokenize(Join(p)).err = NoError
           /\ Holds(Tokenized(Join(p)))
    /\ other = NoRun

NextParser == Parser_init \/ Parser_step \/ Parser_parse_ends

\* the interpreter runs a call that is not over
SpecParser == InitParser /\ [][NextParser]_vars /\ WF_vars(NextParser)

----------------------------------------------------------------------------
(* A caller that calls generate again on the CodeGenerator it has, or      *)
(* makes a new CodeGenerator for the tree.                                 *)

MaxCalls == 3

\* a generate that starts with an empty text
CodeGenerator_generate_reset ==
    /\ stage = "done"
    /\ generate_calls < MaxCalls
    /\ stage' = "emit"
    /\ gen_stack' = <<GenNode(ast)>>
    /\ generated_code' = <<>>
    /\ generate_calls' = generate_calls + 1
    /\ UNCHANGED <<parser, other, code, tokens, current_token_index, ast, raised,
                   symbol_table, initialized_vars, var_Visited, sem_stack, sem_node>>

\* generate(), called once more on the same CodeGenerator
CodeGenerator_generate ==
    /\ stage = "done"
    /\ generate_calls < MaxCalls
    /\ stage' = "emit"
    /\ gen_stack' = <<GenNode(ast)>>
    /\ generate_calls' = generate_calls + 1
    /\ UNCHANGED <<parser, other, code, tokens, current_token_index, ast, raised,
                   symbol_table, initialized_vars, var_Visited, sem_stack, sem_node,
                   generated_code>>

\* CodeGenerator(ast) once more, and generate() on it
CodeGenerator_init ==
    /\ stage = "done"
    /\ generate_calls > 1
    /\ stage' = "emit"
    /\ gen_stack' = <<GenNode(ast)>>
    /\ generated_code' = <<>>
    /\ generate_calls' = 1
    /\ UNCHANGED <<parser, other, code, tokens, current_token_index, ast, raised,
                   symbol_table, initialized_vars, var_Visited, sem_stack, sem_node>>

\* the programs of the caller
CallPrograms ==
    {BaseProgram, SampleProgram, NegativeProgram,
     ProgramLexemes(<< <<"x">>, <<"x">> >>, << AssignLexemes(<<"x">>, << <<"5">> >>) >>)}

InitCalls ==
    /\ \E p \in CallPrograms : Holds(Fresh(Join(p)))
    /\ other = NoRun

NextCalls == Next \/ CodeGenerator_generate \/ CodeGenerator_init

SpecCalls == InitCalls /\ [][NextCalls]_vars

----------------------------------------------------------------------------
(* The trees, texts and token spans the properties speak of *)

\* the Ident nodes of the declaration list of a Program node
Declared(tree) == tree.children[1].children[1].children

DeclaredNames(tree) == {Declared(tree)[i].value : i \in 1..Len(Declared(tree))}

\* the Assign nodes of a Program node
Assignments(tree) == tree.children[2].children

\* the names the first k assignments write
Written(tree, k) == {Assignments(tree)[i].children[1].value : i \in 1..k}

RECURSIVE Idents(_)
\* the Ident nodes of a tree
Idents(node) ==
    IF node.node_type = "Ident" THEN {node}
    ELSE UNION {Idents(node.children[i]) : i \in 1..Len(node.children)}

\* the identifier references outside the declaration list
References(tree) == UNION {Idents(Assignments(tree)[k]) : k \in 1..Len(Assignments(tree))}

RECURSIVE Render(_)
\* the text of an expression: <left> <op> <right>, <op><operand>, a name, a literal
Render(node) ==
    CASE node.node_type = "BinOp" ->
            Render(node.children[1]) \o <<" ">> \o node.value \o <<" ">>
            \o Render(node.children[2])
      [] node.node_type = "UnaryOp" -> node.value \o Render(node.children[1])
      [] OTHER -> node.value

\* the names of a declaration list, joined by ", "
RenderNames(nodes) ==
    Concat([i \in 1..Len(nodes) |->
               IF i = 1 THEN nodes[i].value ELSE <<",", " ">> \o nodes[i].value])

\* the text of a program: the declaration line, then one line for each assignment
RenderProgram(tree) ==
    <<"V", "a", "r", " ">> \o RenderNames(Declared(tree)) \o <<";", NL>>
    \o Concat([k \in 1..Len(Assignments(tree)) |->
                  Render(Assignments(tree)[k].children[1]) \o <<" ", "=", " ">>
                  \o Render(Assignments(tree)[k].children[2]) \o <<";", NL>>])

RECURSIVE SameTree(_, _)
\* the same shape, node kinds and values (the lines may differ)
SameTree(a, b) ==
    /\ a.node_type = b.node_type
    /\ a.value = b.value
    /\ Len(a.children) = Len(b.children)
    /\ \A i \in 1..Len(a.children) : SameTree(a.children[i], b.children[i])

\* scanning and parsing a text
Reparsed(text) == parse(tokenize(text).tokens)

\* the positions of the tokens of a kind
Positions(toks, kind) == {i \in 1..Len(toks) : toks[i].t_type = kind}

\* the k-th smallest number of a set
Kth(S, k) == CHOOSE i \in S : Cardinality({j \in S : j <= i}) = k

\* the position of the '=' of the k-th assignment, and of the ';' that ends it
EqualOf(toks, k) == Kth(Positions(toks, "EQUAL"), k)

SemicolonOf(toks, k) ==
    Kth({i \in Positions(toks, "SEMICOLON") : i > EqualOf(toks, k)}, 1)

\* the tokens of the expression of the k-th assignment
ExpressionTokens(toks, k) == SubSeq(toks, EqualOf(toks, k) + 1, SemicolonOf(toks, k) - 1)

\* the tokens with the expression of the k-th assignment replaced by inner
WithExpression(toks, k, inner) ==
    SubSeq(toks, 1, EqualOf(toks, k)) \o inner \o SubSeq(toks, SemicolonOf(toks, k), Len(toks))

\* the tree parse gives the expression of the k-th assignment
ExpressionOf(tree, k) == Assignments(tree)[k].children[2]

Additive == {<<"+">>, <<"-">>}

Multiplicative == {<<"*">>, <<"/">>}

IsOperand(tok) == tok.t_type \in {"IDENTIFIER", "CONSTANT"}

IsOperator(tok, ops) == tok.t_type = "BINARY_OPERATOR" /\ tok.value \in ops

\* a, op1, b, op2, c with op1 of level1 and op2 of level2
Chain(t, level1, level2) ==
    /\ Len(t) = 5
    /\ IsOperand(t[1]) /\ IsOperand(t[3]) /\ IsOperand(t[5])
    /\ IsOperator(t[2], level1)
    /\ IsOperator(t[4], level2)

ParenFree(t) == \A i \in 1..Len(t) : t[i].t_type \notin {"LPAREN", "RPAREN"}

\* the trees of the operand tok, of left op right and of op operand
Leaf(tok) ==
    [node_type |-> IF tok.t_type = "IDENTIFIER" THEN "Ident" ELSE "Constant",
     line |-> tok.line, value |-> tok.value, children |-> <<>>]

Binary(op, left, right) ==
    [node_type |-> "BinOp", line |-> op.line, value |-> op.value,
     children |-> <<left, right>>]

Unary(op, operand) ==
    [node_type |-> "UnaryOp", line |-> op.line, value |-> op.value,
     children |-> <<operand>>]

IsBinOp(node, ops) == node.node_type = "BinOp" /\ node.value \in ops

RECURSIVE Yield(_)
\* the values of the nodes of an expression tree, in source order
Yield(node) ==
    CASE node.node_type = "BinOp" ->
            Yield(node.children[1]) \o <<node.value>> \o Yield(node.children[2])
      [] node.node_type = "UnaryOp" -> <<node.value>> \o Yield(node.children[1])
      [] OTHER -> <<node.value>>

RECURSIVE Nodes(_)
\* the nodes of a tree
Nodes(node) == {node} \cup UNION {Nodes(node.children[i]) : i \in 1..Len(node.children)}

----------------------------------------------------------------------------
(* The generator *)

\* C1: when scan, parse and check have raised nothing, generate returns
\* exactly "Var ", the declared names in order joined by ", ", ";" and a
\* line break, then for each assignment in order <target> = <expression>;
\* and a line break, and nothing else.
C1_GenerateExact == stage = "done" => generated_code = RenderProgram(ast)

\* the sample: declarations x, y and assignments x = 5, y = x + 10
C1_SampleEmitted ==
    /\ stage = "done"
    /\ DeclaredNames(ast) = {<<"x">>, <<"y">>}
    /\ Len(Assignments(ast)) = 2
    /\ generated_code = <<"V", "a", "r", " ", "x", ",", " ", "y", ";", NL,
                          "x", " ", "=", " ", "5", ";", NL,
                          "y", " ", "=", " ", "x", " ", "+", " ", "1", "0", ";", NL>>

\* C2: the text generate returns for a tree parse returned scans and parses
\* again, to a tree of the same shape, node kinds and values.
C2_RoundTrip ==
    stage = "done" =>
        /\ tokenize(generated_code).err = NoError
        /\ Reparsed(generated_code).err = NoError
        /\ SameTree(Reparsed(generated_code).node, ast)

----------------------------------------------------------------------------
(* The analyzer *)

\* the places of the declaration list whose name stands earlier in the list
Duplicates(tree) ==
    {j \in 1..Len(Declared(tree)) :
        \E i \in 1..(j - 1) : Declared(tree)[i].value = Declared(tree)[j].value}

\* the first declaration of a name declared before
FirstDuplicate(tree) ==
    Declared(tree)[CHOOSE j \in Duplicates(tree) : \A k \in Duplicates(tree) : j <= k]

\* C3: when a name occurs a second time in the declaration list, analyze
\* raises Redeclared with that name and the line of the duplicate
\* declaration, and does so before it examines an assignment: until then it
\* is still on its way to the declaration list, and it never returns.
C3_Redeclared ==
    (ast # NoNode /\ Duplicates(ast) # {}) =>
        /\ stage \in {"check", "failed"}
        /\ (stage = "check" =>
               /\ sem_stack # <<>>
               /\ SemTop.op = "visit"
               /\ SemTop.node.node_type \in {"Program", "VarDecl", "IdList"})
        /\ (stage = "failed" =>
               /\ raised.exc = "Exception"
               /\ raised.kind = "redeclared"
               /\ raised.got_value = FirstDuplicate(ast).value
               /\ raised.line = FirstDuplicate(ast).line)
        /\ sem_node.node_type \in {"None", "Program", "VarDecl", "IdList"}
        /\ initialized_vars = {}

\* a second x in the declaration list has been reported
C3_RedeclaredRaised ==
    /\ stage = "failed"
    /\ raised.kind = "redeclared"
    /\ raised.got_value = <<"x">>
    /\ Duplicates(ast) = {2}
    /\ Len(Assignments(ast)) >= 1

C5_UseBeforeInit ==
    (/\ ast # NoNode
     /\ \E k \in 1..Len(Assignments(ast)) :
           \E r \in Idents(ExpressionOf(ast, k)) :
               r.value \in DeclaredNames(ast) /\ r.value \notin Written(ast, k - 1)) =>
        stage \in {"check", "failed"}

\* a read of a declared name that no assignment has written has been reported
C5_NotInitializedRaised ==
    /\ stage = "failed"
    /\ raised.kind = "not initialized"
    /\ raised.got_value = sem_node.value
    /\ raised.line = sem_node.line

----------------------------------------------------------------------------
(* The parser: expressions *)

\* no '*' or '/' node stands over a '+' or '-' node
TighterBelow(tree) ==
    \A n \in Nodes(tree) :
        IsBinOp(n, Multiplicative) =>
            \A i \in 1..Len(n.children) : ~IsBinOp(n.children[i], Additive)

\* C6: in an expression without parentheses '*' and '/' bind tighter than
\* '+' and '-': a + b * c is the '+' of a and the '*' of b and c, a * b + c
\* is the '+' of the '*' of a and b and c, no '*' or '/' node has a '+' or
\* '-' child, and the tree holds the tokens of the expression in their order.
C6_Precedence ==
    ast # NoNode =>
        \A k \in 1..Len(Assignments(ast)) :
            /\ Chain(ExpressionTokens(tokens, k), Additive, Multiplicative) =>
                   ExpressionOf(ast, k) =
                       Binary(ExpressionTokens(tokens, k)[2],
                              Leaf(ExpressionTokens(tokens, k)[1]),
                              Binary(ExpressionTokens(tokens, k)[4],
                                     Leaf(ExpressionTokens(tokens, k)[3]),
                                     Leaf(ExpressionTokens(tokens, k)[5])))
            /\ Chain(ExpressionTokens(tokens, k), Multiplicative, Additive) =>
                   ExpressionOf(ast, k) =
                       Binary(ExpressionTokens(tokens, k)[4],
                              Binary(ExpressionTokens(tokens, k)[2],
                                     Leaf(ExpressionTokens(tokens, k)[1]),
                                     Leaf(ExpressionTokens(tokens, k)[3])),
                              Leaf(ExpressionTokens(tokens, k)[5]))
            /\ ParenFree(ExpressionTokens(tokens, k)) =>
                   /\ TighterBelow(ExpressionOf(ast, k))
                   /\ Yield(ExpressionOf(ast, k)) =
                          [i \in 1..Len(ExpressionTokens(tokens, k)) |->
                              ExpressionTokens(tokens, k)[i].value]

\* x + 5 * 10 has been parsed: the right child of its '+' is the '*'
C6_AddOverMul ==
    /\ ast # NoNode
    /\ Chain(ExpressionTokens(tokens, 1), {<<"+">>}, {<<"*">>})
    /\ IsBinOp(ExpressionOf(ast, 1), {<<"+">>})
    /\ IsBinOp(ExpressionOf(ast, 1).children[2], {<<"*">>})

\* the level of an operator node: its operators
LevelOf(node) == IF node.value \in Additive THEN Additive ELSE Multiplicative

\* no operator node has a right child that is an operator node of its level
LeftFolded(tree) ==
    \A n \in Nodes(tree) :
        n.node_type = "BinOp" => ~IsBinOp(n.children[2], LevelOf(n))

\* C7: a chain of operators of one level folds to the left: a op1 b op2 c
\* with op1 and op2 of one level is the op2 of (the op1 of a and b) and c,
\* and in an expression without parentheses the right child of an operator
\* node is never an operator node of the same level.
C7_LeftAssociative ==
    ast # NoNode =>
        \A k \in 1..Len(Assignments(ast)) :
            /\ (\/ Chain(ExpressionTokens(tokens, k), Additive, Additive)
                \/ Chain(ExpressionTokens(tokens, k), Multiplicative, Multiplicative)) =>
                   ExpressionOf(ast, k) =
                       Binary(ExpressionTokens(tokens, k)[4],
                              Binary(ExpressionTokens(tokens, k)[2],
                                     Leaf(ExpressionTokens(tokens, k)[1]),
                                     Leaf(ExpressionTokens(tokens, k)[3])),
                              Leaf(ExpressionTokens(tokens, k)[5]))
            /\ ParenFree(ExpressionTokens(tokens, k)) => LeftFolded(ExpressionOf(ast, k))

\* x - 5 - 10 has been parsed: the left child of its second '-' is the first
C7_MinusChain ==
    /\ ast # NoNode
    /\ Chain(ExpressionTokens(tokens, 1), {<<"-">>}, {<<"-">>})
    /\ IsBinOp(ExpressionOf(ast, 1), {<<"-">>})
    /\ IsBinOp(ExpressionOf(ast, 1).children[1], {<<"-">>})
    /\ ExpressionOf(ast, 1).children[2].node_type = "Constant"

\* '-', a, op, b
UnaryThenBinary(t) ==
    /\ Len(t) = 4
    /\ t[1].t_type = "UNARY_OPERATOR"
    /\ IsOperand(t[2])
    /\ IsOperator(t[3], Additive \cup Multiplicative)
    /\ IsOperand(t[4])

\* the parentheses open after the tokens i..j
Depth(t, i, j) ==
    Cardinality({n \in i..j : t[n].t_type = "LPAREN"})
    - Cardinality({n \in i..j : t[n].t_type = "RPAREN"})

\* '-', '(', the tokens of an expression, the ')' of that '('
UnaryOfGroup(t) ==
    /\ Len(t) >= 4
    /\ t[1].t_type = "UNARY_OPERATOR"
    /\ t[2].t_type = "LPAREN"
    /\ t[Len(t)].t_type = "RPAREN"
    /\ \A j \in 2..(Len(t) - 1) : Depth(t, 2, j) > 0

\* the tree parse gives the tokens inner alone, as the k-th expression
AloneOf(toks, k, inner) == ExpressionOf(parse(WithExpression(toks, k, inner)).node, k)

\* C8: unary minus binds tighter than every binary operator and takes the
\* next factor alone: -a op b is the op of (the '-' of a) and b, -(e) is the
\* '-' whose one child is the tree of e, every unary node has one child, and
\* in an expression without parentheses that child is never an operator node.
C8_UnaryMinus ==
    ast # NoNode =>
        \A k \in 1..Len(Assignments(ast)) :
            /\ UnaryThenBinary(ExpressionTokens(tokens, k)) =>
                   ExpressionOf(ast, k) =
                       Binary(ExpressionTokens(tokens, k)[3],
                              Unary(ExpressionTokens(tokens, k)[1],
                                    Leaf(ExpressionTokens(tokens, k)[2])),
                              Leaf(ExpressionTokens(tokens, k)[4]))
            /\ UnaryOfGroup(ExpressionTokens(tokens, k)) =>
                   ExpressionOf(ast, k) =
                       Unary(ExpressionTokens(tokens, k)[1],
                             AloneOf(tokens, k,
                                     SubSeq(ExpressionTokens(tokens, k), 3,
                                            Len(ExpressionTokens(tokens, k)) - 1)))
            /\ \A n \in Nodes(ExpressionOf(ast, k)) :
                   n.node_type = "UnaryOp" =>
                       /\ Len(n.children) = 1
                       /\ ParenFree(ExpressionTokens(tokens, k)) =>
                              n.children[1].node_type # "BinOp"

\* -x * 5 has been parsed: the left child of its '*' is the '-' of x
C8_MinusTimes ==
    /\ ast # NoNode
    /\ UnaryThenBinary(ExpressionTokens(tokens, 1))
    /\ IsBinOp(ExpressionOf(ast, 1), {<<"*">>})
    /\ ExpressionOf(ast, 1).children[1].node_type = "UnaryOp"
    /\ ExpressionOf(ast, 1).children[1].children[1].node_type = "Ident"

----------------------------------------------------------------------------
(* The parser: programs and errors.  The grammar, read off the tokens:     *)
(*   Program     := 'Var' IdList NEWLINE 'Begin' NEWLINE Assignment+ 'End' *)
(*   IdList      := IDENTIFIER (',' IDENTIFIER)* ';'                       *)
(*   Assignment  := IDENTIFIER '=' Expression ';' NEWLINE                  *)
(*   Expression  := operands and parenthesized expressions, each after any *)
(*                  number of unary operators, with binary operators       *)
(*                  between them                                           *)
(* Each ...End below is the position after the longest such phrase that    *)
(* starts at token i, or 0 when none starts there.                         *)

IsKind(toks, i, kind) == i <= Len(toks) /\ toks[i].t_type = kind

IsKeyword(toks, i, word) == IsKind(toks, i, "KEYWORD") /\ toks[i].value = word

RECURSIVE ExpressionEnd(_, _, _, _)
\* operand: an operand comes next; depth: the parentheses open
ExpressionEnd(toks, i, operand, depth) ==
    IF operand
    THEN IF IsKind(toks, i, "UNARY_OPERATOR") THEN ExpressionEnd(toks, i + 1, TRUE, depth)
         ELSE IF IsKind(toks, i, "LPAREN") THEN ExpressionEnd(toks, i + 1, TRUE, depth + 1)
         ELSE IF IsKind(toks, i, "IDENTIFIER") \/ IsKind(toks, i, "CONSTANT")
         THEN ExpressionEnd(toks, i + 1, FALSE, depth)
         ELSE 0
    ELSE IF IsKind(toks, i, "BINARY_OPERATOR") THEN ExpressionEnd(toks, i + 1, TRUE, depth)
         ELSE IF IsKind(toks, i, "RPAREN") /\ depth > 0
         THEN ExpressionEnd(toks, i + 1, FALSE, depth - 1)
         ELSE IF depth = 0 THEN i
         ELSE 0

RECURSIVE IdListEnd(_, _)
IdListEnd(toks, i) ==
    IF ~IsKind(toks, i, "IDENTIFIER") THEN 0
    ELSE IF IsKind(toks, i + 1, "COMMA") THEN IdListEnd(toks, i + 2)
    ELSE IF IsKind(toks, i + 1, "SEMICOLON") THEN i + 2
    ELSE 0

\* the ';' and the line break after an expression that ends before token j
StatementEnd(toks, j) ==
    IF j # 0 /\ IsKind(toks, j, "SEMICOLON") /\ IsKind(toks, j + 1, "NEWLINE")
    THEN j + 2 ELSE 0

AssignmentEnd(toks, i) ==
    IF IsKind(toks, i, "IDENTIFIER") /\ IsKind(toks, i + 1, "EQUAL")
    THEN StatementEnd(toks, ExpressionEnd(toks, i + 2, TRUE, 0))
    ELSE 0

RECURSIVE AssignmentsEnd(_, _)
\* the assignment that ends before token j, then every assignment after it
AssignmentsEnd(toks, j) ==
    IF j = 0 THEN 0
    ELSE IF IsKind(toks, j, "IDENTIFIER") THEN AssignmentsEnd(toks, AssignmentEnd(toks, j))
    ELSE j

\* 'Begin' and the assignments after a declaration list that ends before d
BlockEnd(toks, d) ==
    IF /\ d # 0
       /\ IsKind(toks, d, "NEWLINE")
       /\ IsKeyword(toks, d + 1, Begin)
       /\ IsKind(toks, d + 2, "NEWLINE")
    THEN AssignmentsEnd(toks, AssignmentEnd(toks, d + 3))
    ELSE 0

\* 'End' after a block that ends before token a
EndEnd(toks, a) == IF a # 0 /\ IsKeyword(toks, a, End) THEN a + 1 ELSE 0

ProgramEnd(toks) ==
    IF IsKeyword(toks, 1, Var) THEN EndEnd(toks, BlockEnd(toks, IdListEnd(toks, 2))) ELSE 0

\* the tokens start with a program of the grammar
Grammatical(toks) == ProgramEnd(toks) # 0

\* parse has returned
ParseReturned == stage \in {"check", "emit", "done"} \/ raised.stage = "check"

\* C9: when parse returns, its result is one Program node with exactly two
\* children, a VarDecl and then an AssignList; when the tokens violate the
\* grammar parse raises; and when it raises there is no tree at all.
C9_ProgramOrNothing ==
    /\ ParseReturned =>
           /\ ast.node_type = "Program"
           /\ Len(ast.children) = 2
           /\ ast.children[1].node_type = "VarDecl"
           /\ ast.children[2].node_type = "AssignList"
           /\ Grammatical(tokens)
    /\ raised.stage = "parse" => ast = NoNode /\ stage = "failed"
    /\ (stage \notin {"scan", "parse"} /\ raised.stage # "scan" /\ ~Grammatical(tokens)) =>
           raised.stage = "parse"

\* parse has raised in the assignments, after the declaration was parsed
C9_RaisedInBlock ==
    /\ raised.stage = "parse"
    /\ ast = NoNode
    /\ ~Grammatical(tokens)
    /\ IdListEnd(tokens, 2) # 0
    /\ current_token_index >= IdListEnd(tokens, 2) + 2

\* C10: when the token at the cursor exists and is not of the kind the
\* grammar requires there, parse fails with an error that names the expected
\* kind, the kind of the token found and the line of the token found, with
\* the cursor left on that token.
C10_SyntaxErrorNames ==
    (/\ stage = "failed"
     /\ raised.stage = "parse"
     /\ current_token_index < Len(tokens)
     /\ raised.kind # "value") =>
        /\ raised.exc = "Exception"
        /\ raised.kind = "type"
        /\ raised.expected \in TokenTypes
        /\ raised.got = tokens[current_token_index + 1].t_type
        /\ raised.line = tokens[current_token_index + 1].line

\* a line break where the ';' of an assignment is required has been reported
C10_SemicolonExpected ==
    /\ stage = "failed"
    /\ raised.kind = "type"
    /\ raised.expected = "SEMICOLON"
    /\ raised.got = "NEWLINE"
    /\ raised.line = tokens[current_token_index + 1].line
    /\ tokens[current_token_index].line = raised.line

----------------------------------------------------------------------------
(* The parser: end of input and keywords *)

\* parse has raised with the cursor behind the last token
RaisedAtEnd ==
    /\ stage = "failed"
    /\ raised.stage = "parse"
    /\ current_token_index >= Len(tokens)

\* C11: when the tokens are exhausted where the grammar still requires a
\* token, parse fails with 'expected <kind>, but got end of input', and
\* with no other kind of failure.
C11_EndOfInput ==
    RaisedAtEnd =>
        /\ raised.exc = "Exception"
        /\ raised.kind = "end of input"
        /\ raised.expected \in TokenTypes

\* the tokens end before 'End', and the end of input has been reported
C11_EndExpected ==
    /\ RaisedAtEnd
    /\ raised.kind = "end of input"
    /\ raised.expected = "KEYWORD"
    /\ Len(tokens) > 0
    /\ tokens[Len(tokens)].t_type = "NEWLINE"

\* the texts of the well-formed programs of LayoutBases written with a line
\* break before 'Var', indented lines and a line break and spaces after 'End'
LaidOut ==
    {Join(Layout(p, TRUE, TRUE, TRUE)) :
        p \in {b \in LayoutBases : Reparsed(Join(b)).err = NoError}}

\* C12: a well-formed program whose text begins with a line break before
\* 'Var', whose lines are indented with spaces and which has a line break and
\* spaces after 'End' is tokenized and parsed without an error.
C12_LayoutAccepted ==
    code \in LaidOut => (stage = "failed" => raised.stage \notin {"scan", "parse"})

\* the same program with indented lines and the line break and spaces after
\* 'End', but no line break before 'Var', has been parsed
C12_IndentedParsed ==
    /\ code = Join(Layout(SampleProgram, FALSE, TRUE, TRUE))
    /\ ParseReturned
    /\ stage = "done"

\* the positions where the grammar requires a keyword: the first token,
\* the token after the declaration and its line break, the token after the
\* assignments
KeywordPositions(toks) ==
    {1}
    \cup (IF IdListEnd(toks, 2) # 0 /\ IsKind(toks, IdListEnd(toks, 2), "NEWLINE")
          THEN {IdListEnd(toks, 2) + 1} ELSE {})
    \cup (IF BlockEnd(toks, IdListEnd(toks, 2)) # 0
          THEN {BlockEnd(toks, IdListEnd(toks, 2))} ELSE {})

\* the keyword the grammar requires at the keyword position i: 'Var',
\* 'Begin', 'End'
KeywordRequired(toks, i) ==
    IF i = 1 THEN Var
    ELSE IF i = IdListEnd(toks, 2) + 1 THEN Begin
    ELSE End

\* the keyword positions that hold a keyword of another text
WrongKeywords(toks) ==
    {i \in KeywordPositions(toks) :
        /\ IsKind(toks, i, "KEYWORD")
        /\ toks[i].value # KeywordRequired(toks, i)}

\* C13: parse returns only if the three keyword positions hold 'Var',
\* 'Begin' and 'End'; a KEYWORD token of another text in one of them makes
\* parse raise, at that token, an error that names the expected keyword text
\* and the keyword text found.
C13_KeywordTexts ==
    /\ ParseReturned =>
           /\ IsKeyword(tokens, 1, Var)
           /\ IsKeyword(tokens, IdListEnd(tokens, 2) + 1, Begin)
           /\ IsKeyword(tokens, current_token_index, End)
    /\ (stage \notin {"scan", "parse"} /\ raised.stage # "scan"
        /\ WrongKeywords(tokens) # {}) =>
           /\ stage = "failed"
           /\ raised.stage = "parse"
           /\ current_token_index + 1 \in WrongKeywords(tokens)
           /\ raised.exc = "Exception"
           /\ raised.kind = "value"
           /\ raised.expected_value = KeywordRequired(tokens, current_token_index + 1)
           /\ raised.got_value = tokens[current_token_index + 1].value
           /\ raised.line = tokens[current_token_index + 1].line

\* 'End' where 'Begin' is required has been reported
C13_EndForBegin ==
    /\ stage = "failed"
    /\ raised.kind = "value"
    /\ raised.expected_value = Begin
    /\ raised.got_value = End
    /\ current_token_index + 1 \in WrongKeywords(tokens)

----------------------------------------------------------------------------
(* The tokenizer *)

\* the characters of the lexical classes
Recognized ==
    Letters \cup Digits \cup {"=", "-", "+", "*", "/", ";", ",", "(", ")", " ", "\t", NL}

\* the places of the characters of s that belong to no lexical class
Unrecognized(s) == {p \in 1..Len(s) : s[p] \notin Recognized}

\* a word (a run of letters, digits and '_') starts at p with a digit and
\* holds a character that is no digit: neither a constant nor an identifier
BadWordAt(s, p) ==
    /\ s[p] \in Digits
    /\ (p = 1 \/ s[p - 1] \notin Letters \cup Digits)
    /\ \E q \in p..Len(s) :
           /\ s[q] \notin Digits
           /\ \A r \in p..q : s[r] \in Letters \cup Digits

\* the places of s where no lexical class matches
Unmatched(s) == Unrecognized(s) \cup {p \in 1..Len(s) : BadWordAt(s, p)}

\* the smallest number of a set of numbers
Leftmost(S) == CHOOSE p \in S : \A q \in S : p <= q

\* the number of the line of place p: one plus the line breaks before it
LineOf(s, p) == 1 + Cardinality({q \in 1..(p - 1) : s[q] = NL})

\* tokenize has raised a lexical error for place p, and returned no token
LexicalErrorAt(p) ==
    /\ stage = "failed"
    /\ raised.stage = "scan"
    /\ raised.exc = "RuntimeError"
    /\ raised.got_value = <<code[p]>>
    /\ raised.line = LineOf(code, p)
    /\ tokens = <<>>

BeforeMinus(s, p) ==
    /\ s[p] \in {" ", "\t"}
    /\ \E q \in (p + 1)..Len(s) :
           s[q] = "-" /\ \A r \in p..(q - 1) : s[r] \in {" ", "\t"}

RECURSIVE Squeezed(_, _)
\* s from place p on, without the spaces and tabs before a '-'
Squeezed(s, p) ==
    IF p > Len(s) THEN <<>>
    ELSE (IF BeforeMinus(s, p) THEN <<>> ELSE <<s[p]>>) \o Squeezed(s, p + 1)

RECURSIVE Padded(_, _)
\* s from place p on, with a tab and a space more before every '-'
Padded(s, p) ==
    IF p > Len(s) THEN <<>>
    ELSE (IF s[p] = "-" THEN <<"\t", " ", "-">> ELSE <<s[p]>>) \o Padded(s, p + 1)

\* the tokens '-' of kind k
Minus(k) == {i \in 1..Len(tokens) : tokens[i].value = <<"-">> /\ tokens[i].t_type = k}

OfKind(k) == {i \in 1..Len(tokens) : tokens[i].t_type = k}

RECURSIVE Values(_)
\* the texts of tokens toks, one after the other
Values(toks) == IF toks = <<>> THEN <<>> ELSE Head(toks).value \o Values(Tail(toks))

\* s without its spaces and tabs
Unspaced(s) == SelectSeq(s, LAMBDA c : c \notin {" ", "\t"})

C17_LineNumbers ==
    stage = "parse" =>
        /\ \A i \in 1..Len(tokens) :
               tokens[i].line = 1 + Cardinality({j \in OfKind("NEWLINE") : j < i})
        /\ Len(tokens) > 0 => tokens[1].line = 1
        /\ \A i \in 1..(Len(tokens) - 1) : tokens[i].line <= tokens[i + 1].line

\* a NEWLINE token on line 3 is followed by a token on line 4
C17_LineAfterNewline ==
    /\ stage = "parse"
    /\ \E i \in OfKind("NEWLINE") :
           /\ tokens[i].line = 3
           /\ i < Len(tokens)
           /\ tokens[i + 1].line = 4
           /\ tokens[i + 1].t_type # "NEWLINE"

----------------------------------------------------------------------------
(* The generator: operators *)

\* the UnaryOp nodes of the expressions of a Program node
UnaryOps(tree) ==
    UNION {{n \in Nodes(ExpressionOf(tree, k)) : n.node_type = "UnaryOp"} :
              k \in 1..Len(Assignments(tree))}

\* the BinOp nodes of the expressions of a Program node
BinOps(tree) ==
    UNION {{n \in Nodes(ExpressionOf(tree, k)) : n.node_type = "BinOp"} :
              k \in 1..Len(Assignments(tree))}

\* C18: the text generate returns for a tree with UnaryOp nodes has, for
\* each of them, its operator and right behind it the text of its operand.
C18_UnaryRendered ==
    (stage = "done" /\ UnaryOps(ast) # {}) => generated_code = RenderProgram(ast)

\* 'x = -5;' has been parsed to an assignment of a UnaryOp '-' of the
\* Constant 5, and emitted as 'x = 5;'
C18_MinusDropped ==
    /\ stage = "done"
    /\ Len(Assignments(ast)) = 1
    /\ ExpressionOf(ast, 1).node_type = "UnaryOp"
    /\ ExpressionOf(ast, 1).value = <<"-">>
    /\ ExpressionOf(ast, 1).children[1].node_type = "Constant"
    /\ ExpressionOf(ast, 1).children[1].value = <<"5">>
    /\ generated_code = <<"V", "a", "r", " ", "x", ";", NL, "x", " ", "=", " ", "5", ";", NL>>

RECURSIVE RenderAs(_, _)
\* the text of an expression: <left> <op> <right> for a BinOp, without a
\* parenthesis; the operator of a UnaryOp is written when unary
RenderAs(node, unary) ==
    CASE node.node_type = "BinOp" ->
            RenderAs(node.children[1], unary) \o <<" ">> \o node.value \o <<" ">>
            \o RenderAs(node.children[2], unary)
      [] node.node_type = "UnaryOp" ->
            (IF unary THEN node.value ELSE <<>>) \o RenderAs(node.children[1], unary)
      [] OTHER -> node.value

\* the text of a program, its expressions by RenderAs
RenderProgramAs(tree, unary) ==
    <<"V", "a", "r", " ">> \o RenderNames(Declared(tree)) \o <<";", NL>>
    \o Concat([k \in 1..Len(Assignments(tree)) |->
                  Assignments(tree)[k].children[1].value \o <<" ", "=", " ">>
                  \o RenderAs(ExpressionOf(tree, k), unary) \o <<";", NL>>])

\* C19: in the text generate returns every BinOp node is the text of its
\* left child, a space, its operator, a space and the text of its right
\* child, however the operators of the UnaryOp nodes are written, and the
\* text holds no parenthesis.
C19_BinOpRendered ==
    stage = "done" =>
        /\ \E unary \in BOOLEAN : generated_code = RenderProgramAs(ast, unary)
        /\ \A p \in 1..Len(generated_code) : generated_code[p] \notin {"(", ")"}

\* 'x = ( x + 5 ) * 10 ;' has been parsed to a '*' whose left child is the
\* '+', and emitted as 'x = x + 5 * 10;'
C19_GroupFlattened ==
    /\ stage = "done"
    /\ \E p \in 1..Len(code) : code[p] = "("
    /\ Len(Assignments(ast)) = 1
    /\ IsBinOp(ExpressionOf(ast, 1), {<<"*">>})
    /\ IsBinOp(ExpressionOf(ast, 1).children[1], {<<"+">>})
    /\ generated_code = <<"V", "a", "r", " ", "x", ";", NL, "x", " ", "=", " ",
                          "x", " ", "+", " ", "5", " ", "*", " ", "1", "0", ";", NL>>

----------------------------------------------------------------------------
(* The pipeline *)

\* the stages in their order
StageOrder == <<"scan", "parse", "check", "emit", "done">>

StageNumber(s) == CHOOSE i \in 1..Len(StageOrder) : StageOrder[i] = s

\* what a stage leaves is there only from that stage on, and a run that has
\* failed has one error, of a stage, and no generated text
StageInv ==
    /\ stage = "failed" <=> raised # NoError
    /\ stage = "failed" =>
           /\ raised.stage \in {"scan", "parse", "check", "emit"}
           /\ generated_code = <<>>
           /\ gen_stack = <<>>
           /\ raised.stage = "scan" => tokens = <<>>
           /\ raised.stage \in {"scan", "parse"} =>
                  /\ ast = NoNode
                  /\ sem_stack = <<>>
                  /\ symbol_table = {} /\ initialized_vars = {}
    /\ stage = "scan" => tokens = <<>> /\ current_token_index = 0
    /\ stage \in {"scan", "parse"} =>
           /\ ast = NoNode
           /\ sem_stack = <<>>
           /\ symbol_table = {} /\ initialized_vars = {}
    /\ stage \in {"scan", "parse", "check"} => generated_code = <<>> /\ gen_stack = <<>>
    /\ stage \in {"check", "emit", "done"} => ast.node_type = "Program"
    /\ stage \in {"emit", "done"} => sem_stack = <<>>
    /\ stage = "done" => gen_stack = <<>>

\* a step leaves the stage, goes to the next one, or fails with the error of
\* the stage it is in; after an error nothing happens
StageStep ==
    /\ stage \in {"failed", "done"} => UNCHANGED vars
    /\ stage' # stage =>
           \/ /\ stage' = "failed"
              /\ raised = NoError
              /\ raised'.stage = stage
           \/ /\ stage' # "failed"
              /\ StageNumber(stage') = StageNumber(stage) + 1
              /\ raised' = NoError
    /\ raised' # raised => raised = NoError /\ stage' = "failed"
    /\ stage' = stage => raised' = raised

\* C20: the stages run in the order scan, parse, check, emit, each after the
\* one before has returned without an error; when a stage raises, the run
\* ends with that one error, no later stage has run or runs, and there is no
\* generated text, nor a part of one.
C20_StagesInOrder == []StageInv /\ [][StageStep]_vars

\* the check has raised after scan and parse returned: the tokens and the
\* tree are there, the generated text is not
C20_CheckRaised ==
    /\ stage = "failed"
    /\ raised.stage = "check"
    /\ tokens # <<>>
    /\ ast.node_type = "Program"
    /\ symbol_table # {}
    /\ generated_code = <<>>
    /\ gen_stack = <<>>

----------------------------------------------------------------------------
(* Two runs *)

\* what a run with the objects r has given so far
Results(r) ==
    [stage |-> r.stage, tokens |-> r.tokens, ast |-> r.ast,
     generated_code |-> r.generated_code, raised |-> r.raised]

Ended(r) == r.stage \in {"done", "failed"}

\* a step of a run leaves the objects of the run that waits as they are
Isolated == other' = other \/ (other' = ThisRun /\ ThisRun' = other)

----------------------------------------------------------------------------
(* The stages and the artifacts of the stages before them *)

\* C22: a step of parse leaves the tokens (their number and each token's
\* kind, text and line) as they are, and a step of analyze or of generate
\* leaves the tree (each node's kind, value, line and children in their
\* order) as it is, whether the stage returns or raises.
C22_ArtifactsKept ==
    [][/\ stage = "parse" => tokens' = tokens
       /\ stage \in {"check", "emit"} => ast' = ast]_vars

\* generate has returned, and the tokens and the tree are those tokenize and
\* parse made
C22_KeptToTheEnd ==
    /\ stage = "done"
    /\ Len(tokens) > 0
    /\ tokens = tokenize(code).tokens
    /\ ast.node_type = "Program"
    /\ ast = parse(tokens).node

----------------------------------------------------------------------------
(* The parser: the assignment list *)

\* the '=' tokens parse has gone past
EqualsPassed == {i \in Positions(tokens, "EQUAL") : i <= current_token_index}

\* an assignment ends right before token j
AssignmentBefore(j) == \E i \in 1..(j - 1) : AssignmentEnd(tokens, i) = j

\* the tokens are Var, a declaration list, Begin, and End right after it
EmptyBlock ==
    /\ IsKeyword(tokens, 1, Var)
    /\ IdListEnd(tokens, 2) # 0
    /\ IsKind(tokens, IdListEnd(tokens, 2), "NEWLINE")
    /\ IsKeyword(tokens, IdListEnd(tokens, 2) + 1, Begin)
    /\ IsKind(tokens, IdListEnd(tokens, 2) + 2, "NEWLINE")
    /\ IsKeyword(tokens, IdListEnd(tokens, 2) + 3, End)

\* C23: the AssignList of a tree parse returned has one Assign child or
\* more, one for every assignment up to the token that ends the list, and
\* that token is no IDENTIFIER; when parse raises right after an assignment
\* at a token that is no IDENTIFIER, the list has ended there and the error
\* is the missing keyword; 'Begin', a line break and 'End' at once are
\* rejected with the syntax error of an IDENTIFIER expected.
C23_AssignListNonEmpty ==
    /\ ParseReturned =>
           /\ Len(Assignments(ast)) >= 1
           /\ \A k \in 1..Len(Assignments(ast)) : Assignments(ast)[k].node_type = "Assign"
           /\ Len(Assignments(ast)) = Cardinality(EqualsPassed)
           /\ AssignmentBefore(current_token_index)
           /\ ~IsKind(tokens, current_token_index, "IDENTIFIER")
    /\ (/\ raised.stage = "parse"
        /\ AssignmentBefore(current_token_index + 1)
        /\ ~IsKind(tokens, current_token_index + 1, "IDENTIFIER")) =>
           /\ raised.exc = "Exception"
           /\ raised.expected = "KEYWORD"
           /\ raised.kind = "value" => raised.expected_value = End
    /\ (stage \notin {"scan", "parse"} /\ raised.stage # "scan" /\ EmptyBlock) =>
           /\ stage = "failed"
           /\ raised.stage = "parse"
           /\ raised.exc = "Exception"
           /\ raised.expected = "IDENTIFIER"
           /\ raised.got = "KEYWORD"
           /\ raised.line = tokens[IdListEnd(tokens, 2) + 3].line
           /\ current_token_index = IdListEnd(tokens, 2) + 2

\* 'Var x ; Begin End' has been rejected on line 3
C23_EmptyBlockRejected ==
    /\ EmptyBlock
    /\ stage = "failed"
    /\ raised.stage = "parse"
    /\ raised.expected = "IDENTIFIER"
    /\ raised.line = 3

----------------------------------------------------------------------------
(* The generator: its buffer *)

\* text a starts text b
IsPrefix(a, b) == Len(a) <= Len(b) /\ SubSeq(b, 1, Len(a)) = a

\* C24: every step of generate leaves a buffer that starts with the buffer
\* before the step: no character of it is ever taken away.
C24_AppendOnly == [][stage = "emit" => IsPrefix(generated_code, generated_code')]_vars

\* the ', ' after the last declared name has been taken off the buffer
\* again: the buffer is 'Var x;' and a line break, the tail of VarDecl is next
C24_CommaRemoved ==
    /\ stage = "emit"
    /\ gen_stack # <<>>
    /\ GenTop.op = "VarDecl_tail"
    /\ generated_code = <<"V", "a", "r", " ", "x", ";", NL>>

----------------------------------------------------------------------------
(* The analyzer: what it accepts *)

RECURSIVE IdentSeq(_)
\* the Ident nodes of an expression, from left to right
IdentSeq(node) ==
    IF node.node_type = "Ident" THEN <<node>>
    ELSE Concat([i \in 1..Len(node.children) |-> IdentSeq(node.children[i])])

Violation(kind, node) == [kind |-> kind, name |-> node.value, line |-> node.line]

\* the violations of the k-th assignment: its target when it is not declared,
\* then the identifiers of its expression that are not declared, or are the
\* target of neither this assignment nor an earlier one
AssignViolations(tree, k) ==
    (IF Assignments(tree)[k].children[1].value \notin DeclaredNames(tree)
     THEN <<Violation("not declared", Assignments(tree)[k].children[1])>> ELSE <<>>)
    \o Concat([i \in 1..Len(IdentSeq(ExpressionOf(tree, k))) |->
          IF IdentSeq(ExpressionOf(tree, k))[i].value \notin DeclaredNames(tree)
          THEN <<Violation("not declared", IdentSeq(ExpressionOf(tree, k))[i])>>
          ELSE IF IdentSeq(ExpressionOf(tree, k))[i].value \notin Written(tree, k)
          THEN <<Violation("not initialized", IdentSeq(ExpressionOf(tree, k))[i])>>
          ELSE <<>>])

\* the violations of a program in the order of the traversal: the names
\* declared twice, then those of the assignments from the first to the last
Violations(tree) ==
    (IF Duplicates(tree) # {} THEN <<Violation("redeclared", FirstDuplicate(tree))>>
     ELSE <<>>)
    \o Concat([k \in 1..Len(Assignments(tree)) |-> AssignViolations(tree, k)])

\* analyze has returned or raised
AnalyzeEnded == stage \in {"emit", "done"} \/ raised.stage = "check"

\* C25: analyze returns exactly when no name is declared twice, every target
\* and every identifier of an expression is declared, and every identifier
\* of an expression is the target of its assignment or of one before it;
\* otherwise it raises the first violation in the order declarations,
\* assignments from the first to the last, target before expression,
\* operands from left to right.
C25_AnalyzeAccepts ==
    AnalyzeEnded =>
        IF Violations(ast) = <<>> THEN raised = NoError
        ELSE /\ stage = "failed"
             /\ raised.exc = "Exception"
             /\ raised.kind = Violations(ast)[1].kind
             /\ raised.got_value = Violations(ast)[1].name
             /\ raised.line = Violations(ast)[1].line

\* of the violations of one assignment the first has been raised: its
\* target y, which is not declared, before the x of its expression, which no
\* assignment has written
C25_TargetFirst ==
    /\ raised.stage = "check"
    /\ Len(Violations(ast)) >= 2
    /\ Violations(ast)[1] = Violation("not declared", Assignments(ast)[1].children[1])
    /\ Violations(ast)[2].kind = "not initialized"
    /\ Violations(ast)[2].name = <<"x">>
    /\ raised.kind = "not declared"
    /\ raised.got_value = <<"y">>

----------------------------------------------------------------------------
(* The analyzer: its tables *)

\* the tables of the analyzer: the initialized names are declared names, the
\* declared names are names of the declaration list, and before the first
\* handler has run there is none
TablesInv ==
    /\ initialized_vars \subseteq symbol_table
    /\ (stage \in {"scan", "parse"} \/ (stage = "check" /\ sem_node = NoNode)) =>
           symbol_table = {} /\ initialized_vars = {}
    /\ ast # NoNode => symbol_table \subseteq DeclaredNames(ast)
    /\ var_Visited => symbol_table = DeclaredNames(ast)
    /\ ~var_Visited => initialized_vars = {}

\* a step only adds to the tables, and adds to the symbol table only when it
\* visits the declaration list
TablesStep ==
    /\ symbol_table \subseteq symbol_table'
    /\ initialized_vars \subseteq initialized_vars'
    /\ symbol_table' # symbol_table => SemVisiting({"IdList"}) /\ ~var_Visited
    /\ initialized_vars' # initialized_vars => SemVisiting({"Assign"})

\* C26: the initialized names are always names of the symbol table; the
\* symbol table gets its names while the declaration list is visited and
\* stays as it is once the declaration block is left; both tables only grow,
\* and both are empty when the analyzer is created.
C26_TablesGrow == []TablesInv /\ [][TablesStep]_vars

\* after the declaration block the first assignment has made x, one of the
\* two declared names, initialized
C26_OneOfTwoInitialized ==
    /\ stage = "check"
    /\ var_Visited
    /\ symbol_table = {<<"x">>, <<"y">>}
    /\ initialized_vars = {<<"x">>}

----------------------------------------------------------------------------
(* Two '-' in a row *)

\* the places of a unary '-' that a second '-' follows, in an assignment
DoubleMinus ==
    {i \in 1..(Len(tokens) - 1) :
        /\ tokens[i].t_type = "UNARY_OPERATOR"
        /\ tokens[i + 1].value = <<"-">>
        /\ \A j \in 1..i : ~IsKeyword(tokens, j, End)}

\* C27: the tokens tokenize returned have no UNARY_OPERATOR right after a
\* UNARY_OPERATOR: the '-' after a unary '-' is a BINARY_OPERATOR; and a
\* source with two such '-' in a row is rejected by parse, with a syntax
\* error when parse comes to the second '-'.
C27_DoubleMinusRejected ==
    /\ stage = "parse" =>
           \A i \in 1..(Len(tokens) - 1) :
               tokens[i].t_type = "UNARY_OPERATOR" =>
                   /\ tokens[i + 1].t_type # "UNARY_OPERATOR"
                   /\ tokens[i + 1].value = <<"-">> =>
                          tokens[i + 1].t_type = "BINARY_OPERATOR"
    /\ (stage \notin {"scan", "parse"} /\ raised.stage # "scan" /\ DoubleMinus # {}) =>
           /\ stage = "failed"
           /\ raised.stage = "parse"
           /\ current_token_index \in DoubleMinus => raised.exc = "Exception"

\* 'x = --5;': parse has come to the second '-', a BINARY_OPERATOR, and has
\* raised an AttributeError
C27_AttributeErrorRaised ==
    /\ code = Join(DoubleMinusProgram)
    /\ stage = "failed"
    /\ raised.stage = "parse"
    /\ current_token_index \in DoubleMinus
    /\ tokens[current_token_index + 1].t_type = "BINARY_OPERATOR"
    /\ raised.exc = "AttributeError"

----------------------------------------------------------------------------
(* generate, called again *)

RECURSIVE Repeated(_, _)
\* text, k times
Repeated(text, k) == IF k = 0 THEN <<>> ELSE text \o Repeated(text, k - 1)

\* C28: the k-th generate() on one CodeGenerator returns the text of a
\* single call k times in a row; the first generate() on a new CodeGenerator
\* returns that text once.
C28_Accumulates ==
    stage = "done" =>
        /\ generate_calls >= 1
        /\ \E unary \in BOOLEAN :
               generated_code = Repeated(RenderProgramAs(ast, unary), generate_calls)

\* the third generate() on one CodeGenerator has returned the text of the
\* sample three times
C28_ThreeTimes ==
    /\ stage = "done"
    /\ generate_calls = 3
    /\ code = Join(SampleProgram)
    /\ generated_code = Repeated(RenderProgram(ast), 3)
    /\ Len(generated_code) > Len(code)

----------------------------------------------------------------------------
(* The parser: the tokens after 'End' *)

\* tokens to put after a program
SuffixTokens ==
    {Token("IDENTIFIER", <<"x">>, 9), Token("EQUAL", <<"=">>, 9),
     Token("KEYWORD", Begin, 9), Token("KEYWORD", End, 9), Token("NEWLINE", <<NL>>, 9),
     Token("UNARY_OPERATOR", <<"-">>, 9), Token("RPAREN", <<")">>, 9)}

Suffixes == {<<>>} \cup {<<t>> : t \in SuffixTokens}

\* parse has just returned
ParseJustReturned == stage = "check" /\ sem_node = NoNode

\* C29: when parse has returned, its cursor is right after the 'End' it has
\* taken, and the tokens up to that 'End', alone or with any tokens after
\* them, give the same tree and the same cursor.
C29_NothingAfterEnd ==
    ParseJustReturned =>
        /\ IsKeyword(tokens, current_token_index, End)
        /\ \A s \in Suffixes :
               parse(SubSeq(tokens, 1, current_token_index) \o s)
                   = Returns(ast, current_token_index + 1)

\* parse has returned with tokens left after the 'End' it has taken
C29_TokensLeft ==
    /\ ParseJustReturned
    /\ current_token_index < Len(tokens)
    /\ IsKeyword(tokens, current_token_index, End)
    /\ tokens[Len(tokens)].t_type # "NEWLINE"

----------------------------------------------------------------------------
(* The parser: its cursor *)

\* the cursor is in the tokens or right after them; __eat at the cursor goes
\* one token on when it accepts the token there, and stays when it raises
CursorInv ==
    /\ current_token_index \in 0..Len(tokens)
    /\ parser.pos \in 1..(Len(tokens) + 1)
    /\ (stage = "parse" /\ parser # NoParser) =>
           \A t \in TokenTypes :
               IF eat(tokens, parser.pos, t, None).err = NoError
               THEN /\ IsKind(tokens, parser.pos, t)
                    /\ eat(tokens, parser.pos, t, None).pos = parser.pos + 1
               ELSE /\ ~IsKind(tokens, parser.pos, t)
                    /\ eat(tokens, parser.pos, t, None).pos = parser.pos

\* a step of parse goes on from a frame of rule at place at
StepFrom(rules, ats) ==
    /\ stage = "parse"
    /\ parser # NoParser
    /\ parser' # parser
    /\ parser.stack # <<>>
    /\ parser.stack[1].rule \in rules
    /\ parser.stack[1].at \in ats

\* the step has neither raised nor returned
GoesOn == parser'.err = NoError /\ Len(parser'.stack) >= Len(parser.stack)

\* the cursor never goes back; a turn of the loop of the identifier list, of
\* an expression or of a term, and a factor that calls a rule, accept a token
\* before they go on; so does every assignment the assignment list calls
CursorStep ==
    /\ current_token_index' >= current_token_index
    /\ parser'.pos >= parser.pos
    /\ (StepFrom({"identifier_list"}, {1}) /\ GoesOn) => parser'.pos >= parser.pos + 2
    /\ (StepFrom({"expression", "term"}, {1, 2}) /\ GoesOn) => parser'.pos = parser.pos + 1
    /\ (StepFrom({"factor"}, {0}) /\ GoesOn) => parser'.pos = parser.pos + 1
    /\ (StepFrom({"assignment_list"}, {1}) /\ GoesOn) =>
           /\ IsKind(tokens, parser.pos, "IDENTIFIER")
           /\ parser'.stack[1] = PFrame("assignment", 0, NoNode)
    /\ (StepFrom({"assignment"}, {0}) /\ parser'.err = NoError) =>
           parser'.pos = parser.pos + 2

\* parse has returned a tree or has raised
ParseEnded == stage \in {"check", "failed"}

\* C30: parse ends on every token list, with a tree or with an exception;
\* its cursor is always between 0 and the number of tokens, never goes back
\* and goes on by one for every token __eat accepts; and every turn of a loop
\* and every call a factor makes accept a token before the next.
C30_ParseTerminates == <>ParseEnded /\ []CursorInv /\ [][CursorStep]_vars

\* parse is in the second turn of the loop of an expression, inside a
\* parenthesis inside a factor
C30_InALoop ==
    /\ stage = "parse"
    /\ Len(parser.stack) >= 8
    /\ parser.stack[1].rule = "expression"
    /\ parser.stack[1].at = 2
    /\ parser.pos > 10
    /\ parser.err = NoError

====
